---- MODULE Spec2Model ----
(***************************************************************************)
(* Usernaut: the Group reconciler (internal/controller/group_controller.go) *)
(* and the user offboarding sweep                                           *)
(* (internal/controller/periodicjobs/job_usernaut_offboarding.go).          *)
(*                                                                          *)
(* The specifications that share the module:                                *)
(*   SpecExpand    membership expansion of one Group over the Group graph   *)
(*   Spec          Reconcile of one live Group against its backends         *)
(*   SpecDeletion  the Group from its creation to its removal               *)
(*   SpecSweep     the offboarding job over user_list, next to Reconcile    *)
(*   SpecConcurrent  Reconciles of two Groups and the job, step by step     *)
(*   SpecTransform   GetTransformedGroupName over rule lists and names      *)
(*   SpecTasks     PeriodicTaskManager.RunAll and the unit of each task     *)
(*   SpecStart     the startup gate of the periodic tasks controller        *)
(*   SpecSweepCancel  SpecConcurrent with the cancellation of the context   *)
(*   SpecPreserve  offboardUserFromAllBackends over backend keys            *)
(*   SpecLdap      the directory client: getConn and GetUserLDAPData        *)
(*   SpecImc       the in-memory cache                                      *)
(*   SpecSteps     the steps of Reconcile for one backend, one at a time    *)
(*   SpecOwner     setOwnerReference on a Group whose references change     *)
(*   SpecBatch     the batch membership calls of the fivetran client        *)
(*   SpecWatch     the controller's watches and work queue over a chain     *)
(***************************************************************************)
EXTENDS Integers, Sequences, FiniteSets, TLC

VARIABLES
    \* ---- cluster store and membership expansion
    store,            \* Group name -> [users, groups] (spec.members of each Group CR)
    expRoot,          \* the name fetchUniqueGroupMembers was last started with
    fetched,          \* what that call returned: [err, members, gets, depth]
    reconciledUsers,  \* status.ReconciledUsers
    \* ---- the reconciled Group, the configuration and the outside world
    gcr,              \* the Group CR that Reconcile is called for (object "a")
    cfg,              \* AppConfig: pattern and backendMap
    directory,        \* the users the LDAP directory resolves
    cache,            \* the key/value cache: key -> (backend key -> id)
    teams,            \* backend key -> ids of the teams that exist there
    teamMembers,      \* backend key -> team id -> ids of its members
    busers,           \* backend key -> ids of the accounts that exist there
    \* ---- observation of the last operation
    calls,            \* adapter and cache-write calls of the last operation
    lastRun,          \* what the last operation was and how it ended
    deletedTeams,     \* <<backend key, team id>> of every DeleteTeamByID that succeeded
    faultMet,         \* some Reconcile of the live Group has met a fault
    recordedAtDeletion, \* <<backend key, team id>> the cache held when deletion was requested
    \* ---- the offboarding job
    userList,         \* the cache's user_list entry: whether it is there, and its users
    lastSweep,        \* if the last operation was a Run of the job: what it started from and found
    \* ---- Reconcile workers and the offboarding job, step by step
    workers,          \* worker -> where its Reconcile is and what it holds
    sweeper,          \* where the job's Run is and what it holds
    cacheMutex,       \* the shared sync.RWMutex: "free", or "write" while locked
    \* ---- the name transform
    nameCall,         \* the last call of GetTransformedGroupName made on its own
    \* ---- the periodic task manager
    ctxDone,          \* the context passed to RunAll is cancelled
    units,            \* task -> the goroutine RunAll started for it
    \* ---- the startup gate of the periodic tasks controller
    gate,             \* where Start is, and what its cache probes met
    \* ---- the directory client
    connClosing,      \* l.conn.IsClosing(): the connection held is closing
    lookup,           \* the last GetUserLDAPData: what it met and returned
    \* ---- the in-memory cache
    imc,              \* its items, its default expiration and the time
    imcHist,          \* key -> the last Set or Delete made on it
    imcLast,          \* the last call on the cache and what it returned
    \* ---- the owner references of a Group
    ownerCall,        \* the last setOwnerReference: what it was given, what it left
    \* ---- the Fivetran client's batch membership calls
    batch,            \* the call in progress: its goroutines and what it returned
    \* ---- the controller's watches
    watch             \* the work queue and status.ReconciledUsers of every Group

varsExpand == <<store, expRoot, fetched, reconciledUsers>>

varsRec ==
    <<gcr, cfg, directory, cache, teams, teamMembers, busers, calls, lastRun,
      deletedTeams, faultMet, recordedAtDeletion, userList, lastSweep>>

varsConc == <<workers, sweeper, cacheMutex>>

varsTasks == <<ctxDone, units>>

varsLdap == <<connClosing, lookup>>

varsImc == <<imc, imcHist, imcLast>>

varsLate == <<ownerCall, batch, watch>>

varsMore == <<gate, varsLdap, varsImc, varsLate>>

varsAux == <<varsConc, nameCall, varsTasks, varsMore>>

vars == <<varsExpand, varsRec, varsAux>>

(***************************************************************************)
(* Bounds and value sets                                                    *)
(***************************************************************************)
\* Total number of list entries (members.users and members.groups together)
\* over all Groups of the namespace.
MaxEntries == 4
\* Recursion depth at which the model gives up on a traversal; a traversal
\* that respects the path-local visited set never gets there.
MaxDepth == 6

GroupNames == {"a", "b", "c"}
Users == {"x", "y"}

Range(s) == {s[i] : i \in DOMAIN s}

ListsOfLen(S, n) == [1..n -> S]

\* The six lists of the namespace: users and groups of a, b and c.
Slots == 1..6

SumLens(l) == l[1] + l[2] + l[3] + l[4] + l[5] + l[6]

LenAssignments == {l \in [Slots -> 0..MaxEntries] : SumLens(l) <= MaxEntries}

\* The stores in which a, b and c all exist.
StoresWith(l) ==
    { ("a" :> [users |-> ua, groups |-> ga]) @@
      ("b" :> [users |-> ub, groups |-> gb]) @@
      ("c" :> [users |-> uc, groups |-> gc]) :
        ua \in ListsOfLen(Users, l[1]), ga \in ListsOfLen(GroupNames, l[2]),
        ub \in ListsOfLen(Users, l[3]), gb \in ListsOfLen(GroupNames, l[4]),
        uc \in ListsOfLen(Users, l[5]), gc \in ListsOfLen(GroupNames, l[6]) }

\* The stores in which c does not exist: a members.groups entry naming c
\* names a Group that is not there.
StoresWithout(l) ==
    { ("a" :> [users |-> ua, groups |-> ga]) @@
      ("b" :> [users |-> ub, groups |-> gb]) :
        ua \in ListsOfLen(Users, l[1]), ga \in ListsOfLen(GroupNames, l[2]),
        ub \in ListsOfLen(Users, l[3]), gb \in ListsOfLen(GroupNames, l[4]) }

WithoutC == {l \in LenAssignments : l[5] = 0 /\ l[6] = 0}

(***************************************************************************)
(* fetchUniqueGroupMembers: depth-first expansion with a path-local visited *)
(* set. The result records, besides the error and the member list, the      *)
(* number of store reads (gets) and the deepest call (depth).               *)
(***************************************************************************)
Max(a, b) == IF a >= b THEN a ELSE b

\* Body applied to the value of e: e is evaluated once, whatever Body does
\* with it.
Bind(e, Body(_)) == CHOOSE r \in {Body(x) : x \in {e}} : TRUE

FetchResult(err, members, gets, depth) ==
    [err |-> err, members |-> members, gets |-> gets, depth |-> depth]

\* A traversal that returns the Group's own users and never descends.
fetchOwnUsersOnly(st, groupName, visitedOnPath, depth) ==
    IF groupName \in visitedOnPath
    THEN FetchResult("none", <<>>, 0, depth)
    ELSE IF groupName \notin DOMAIN st
    THEN FetchResult("notfound", <<>>, 1, depth)
    ELSE FetchResult("none", st[groupName].users, 1, depth)

\* The same traversal without the visitedOnPath check.
RECURSIVE fetchNoCycleCheck(_, _, _, _)
fetchNoCycleCheck(st, groupName, visitedOnPath, depth) ==
    IF depth > MaxDepth
    THEN FetchResult("diverged", <<>>, 0, depth)
    ELSE IF groupName \notin DOMAIN st
    THEN FetchResult("notfound", <<>>, 1, depth)
    ELSE LET subs == st[groupName].groups
             Sub[i \in 0..Len(subs)] ==
                 IF i = 0
                 THEN FetchResult("none", st[groupName].users, 1, depth)
                 ELSE Bind(Sub[i - 1], LAMBDA acc :
                      IF acc.err # "none" THEN acc
                      ELSE Bind(fetchNoCycleCheck(st, subs[i],
                                   visitedOnPath \cup {groupName}, depth + 1), LAMBDA r :
                           IF r.err # "none"
                           THEN FetchResult(r.err, <<>>, acc.gets + r.gets,
                                            Max(acc.depth, r.depth))
                           ELSE FetchResult("none", acc.members \o r.members,
                                            acc.gets + r.gets, Max(acc.depth, r.depth))))
         IN Sub[Len(subs)]

RECURSIVE fetchUniqueGroupMembers(_, _, _, _)
fetchUniqueGroupMembers(st, groupName, visitedOnPath, depth) ==
    IF depth > MaxDepth
    THEN FetchResult("diverged", <<>>, 0, depth)
    ELSE IF groupName \in visitedOnPath
    \* cyclic dependency on the current path: the empty list, no store read
    THEN FetchResult("none", <<>>, 0, depth)
    ELSE IF groupName \notin DOMAIN st
    \* r.Client.Get fails
    THEN FetchResult("notfound", <<>>, 1, depth)
    ELSE LET subs == st[groupName].groups
             \* Sub[i]: the state after the i-th subGroup of the loop; the
             \* deferred delete restores visitedOnPath after every call, so
             \* every subGroup sees the same set.
             Sub[i \in 0..Len(subs)] ==
                 IF i = 0
                 THEN FetchResult("none", st[groupName].users, 1, depth)
                 ELSE Bind(Sub[i - 1], LAMBDA acc :
                      IF acc.err # "none" THEN acc
                      ELSE Bind(fetchUniqueGroupMembers(st, subs[i],
                                   visitedOnPath \cup {groupName}, depth + 1), LAMBDA r :
                           IF r.err # "none"
                           THEN FetchResult(r.err, <<>>, acc.gets + r.gets,
                                            Max(acc.depth, r.depth))
                           ELSE FetchResult("none", acc.members \o r.members,
                                            acc.gets + r.gets, Max(acc.depth, r.depth))))
         IN Sub[Len(subs)]

(***************************************************************************)
(* deduplicateMembers: keep the first occurrence of every member.           *)
(***************************************************************************)
\* Keeps the last occurrence instead of the first.
deduplicateKeepLast(members) ==
    LET Out[i \in 0..Len(members)] ==
            IF i = 0 THEN <<>>
            ELSE Bind(Out[i - 1], LAMBDA uniqueMembers :
                 IF \E j \in (i + 1)..Len(members) : members[j] = members[i]
                 THEN uniqueMembers
                 ELSE Append(uniqueMembers, members[i]))
    IN Out[Len(members)]

deduplicateMembers(members) ==
    LET Out[i \in 0..Len(members)] ==
            IF i = 0 THEN <<>>
            ELSE Bind(Out[i - 1], LAMBDA uniqueMembers :
                 IF members[i] \in Range(uniqueMembers)
                 THEN uniqueMembers
                 ELSE Append(uniqueMembers, members[i]))
    IN Out[Len(members)]

(***************************************************************************)
(* Values of the reconciler: backends, configuration, ids                   *)
(***************************************************************************)
\* The object name of the reconciled Group CR.
ReconciledName == "a"

\* spec.backends entries (api/v1alpha1 Backend: name and type).
BFt == [name |-> "ft", type |-> "fivetran"]

BRv == [name |-> "rv", type |-> "rover"]

BFt2 == [name |-> "ft2", type |-> "fivetran"]

\* backend.Name + "_" + backend.Type, the key of an id inside a cache entry.
BackendKey(b) ==
    CASE b = BFt -> "ft_fivetran"
      [] b = BRv -> "rv_rover"
      [] b = BFt2 -> "ft2_fivetran"

BackendKeys == {"ft_fivetran", "rv_rover", "ft2_fivetran"}

\* LDAPUser.GetEmail() of a user: the key of the user's cache entry.
EmailOf == ("x" :> "x@mail") @@ ("y" :> "xy@mail")

\* The characters of the names: of the users, of the keys the cache can
\* hold, and of the group names given to the name transform.
KeyChars ==
    ("x" :> <<"x">>) @@ ("y" :> <<"y">>) @@
    ("x@mail" :> <<"x", "@", "m", "a", "i", "l">>) @@
    ("xy@mail" :> <<"x", "y", "@", "m", "a", "i", "l">>) @@
    ("team_a" :> <<"t", "e", "a", "m", "_", "a">>) @@
    ("team_c" :> <<"t", "e", "a", "m", "_", "c">>) @@
    ("ft_a" :> <<"f", "t", "_", "a">>) @@
    ("ft_c" :> <<"f", "t", "_", "c">>) @@
    ("a" :> <<"a">>) @@ ("b" :> <<"b">>) @@ ("c" :> <<"c">>) @@
    ("a-c" :> <<"a", "-", "c">>) @@
    ("c-a-c" :> <<"c", "-", "a", "-", "c">>)

\* The name with the given characters ("?" for one the model has no use
\* for as a key).
NameOf(chars) ==
    IF \E k \in DOMAIN KeyChars : KeyChars[k] = chars
    THEN CHOOSE k \in DOMAIN KeyChars : KeyChars[k] = chars
    ELSE "?"

\* The regular expressions of the sample rules, by what regexp.Compile and
\* FindStringSubmatch make of them:
\*   "any"     (.*)               matches every name, $1 is the name
\*   "prefix"  ^lit(.*)$          matches the names that start with lit
\*   "split"   ^([^-]*)-(.*)$     matches the names with a "-" in them
\*   "bad"     (                  does not compile
ReAny == [kind |-> "any", lit |-> <<>>]

RePrefix(lit) == [kind |-> "prefix", lit |-> lit]

ReSplit == [kind |-> "split", lit |-> <<>>]

ReBad == [kind |-> "bad", lit |-> <<>>]

regexpCompiles(re) == re.kind # "bad"

HasPrefix(s, p) == Len(s) >= Len(p) /\ SubSeq(s, 1, Len(p)) = p

\* strings.Contains
Contains(s, sub) ==
    \E i \in 1..(Len(s) - Len(sub) + 1) : SubSeq(s, i, i + Len(sub) - 1) = sub

\* strings.ReplaceAll for a non-empty old: left to right, no overlap.
RECURSIVE ReplaceAll(_, _, _)
ReplaceAll(s, old, new) ==
    IF Len(s) < Len(old) THEN s
    ELSE IF HasPrefix(s, old)
    THEN new \o ReplaceAll(SubSeq(s, Len(old) + 1, Len(s)), old, new)
    ELSE <<Head(s)>> \o ReplaceAll(Tail(s), old, new)

\* re.FindStringSubmatch: the match and its capture groups, <<>> if there
\* is no match.
FindStringSubmatch(re, s) ==
    CASE re.kind = "any" -> <<s, s>>
      [] re.kind = "prefix" ->
            IF HasPrefix(s, re.lit) THEN <<s, SubSeq(s, Len(re.lit) + 1, Len(s))>>
            ELSE <<>>
      [] re.kind = "split" ->
            IF \E i \in DOMAIN s : s[i] = "-"
            THEN LET i == CHOOSE i \in DOMAIN s :
                              s[i] = "-" /\ \A j \in 1..(i - 1) : s[j] # "-"
                 IN <<s, SubSeq(s, 1, i - 1), SubSeq(s, i + 1, Len(s))>>
            ELSE <<>>
      [] OTHER -> <<>>

\* The characters of "|replace(-,_)", kept as one.
ReplaceToken == "|replace(-,_)"

\* fmt.Sprintf("$%d", i)
Placeholder(i) == <<"$", IF i = 1 THEN "1" ELSE "2">>

\* utils.processGroupName; matches[1] is the whole match (matches[0] in Go).
processGroupName(outputTemplate, matches) ==
    LET Step[i \in 0..(Len(matches) - 1)] ==
            IF i = 0 THEN outputTemplate
            ELSE Bind(Step[i - 1], LAMBDA result :
                 IF Contains(result, Placeholder(i) \o <<ReplaceToken>>)
                 THEN ReplaceAll(result, Placeholder(i) \o <<ReplaceToken>>,
                                 ReplaceAll(matches[i + 1], <<"-">>, <<"_">>))
                 ELSE ReplaceAll(result, Placeholder(i), matches[i + 1]))
    IN Step[Len(matches) - 1]

\* A PatternEntry: the input regular expression and the output template.
DefaultEntry ==
    [input |-> ReAny, output |-> <<"t", "e", "a", "m", "_", "$", "1">>]

FivetranEntry == [input |-> ReAny, output |-> <<"f", "t", "_", "$", "1">>]

NoMatchEntry == [input |-> RePrefix(<<"z">>), output |-> DefaultEntry.output]

\* The names spec.group_name of the reconciled Group is transformed to.
TeamNames == {"team_a", "team_c", "ft_a", "ft_c"}

AllEnabled == [k \in BackendKeys |-> [enabled |-> TRUE]]

\* Sample configurations: one default pattern; a pattern list of its own for
\* fivetran whose first entry does not match; a pattern list for rover in
\* which nothing matches; the rover backend disabled.
CfgDefault ==
    [pattern |-> ("default" :> <<DefaultEntry>>), backendMap |-> AllEnabled]

CfgPerType ==
    [pattern |-> ("default" :> <<DefaultEntry>>) @@
                 ("fivetran" :> <<NoMatchEntry, FivetranEntry>>),
     backendMap |-> AllEnabled]

CfgRoverNoMatch ==
    [pattern |-> ("default" :> <<DefaultEntry>>) @@ ("rover" :> <<NoMatchEntry>>),
     backendMap |-> AllEnabled]

CfgRoverDisabled ==
    [pattern |-> ("default" :> <<DefaultEntry>>),
     backendMap |-> [AllEnabled EXCEPT !["rv_rover"].enabled = FALSE]]

\* Ids the backends hand out. Fivetran assigns ids of its own; Rover uses
\* the user name and the team name (redhat_rover/users.go:35-41,
\* redhat_rover/teams.go:41-91).
FivetranUserId == ("x" :> "uid_x") @@ ("y" :> "uid_y")

FivetranTeamId ==
    ("team_a" :> "tid_team_a") @@ ("team_c" :> "tid_team_c") @@
    ("ft_a" :> "tid_ft_a") @@ ("ft_c" :> "tid_ft_c")

UserIds == Users \cup {FivetranUserId[u] : u \in Users}

TeamIds == TeamNames \cup {FivetranTeamId[t] : t \in TeamNames}

EmptyMap == [k \in {} |-> ""]

RECURSIVE SetToSeq(_)
SetToSeq(S) ==
    IF S = {} THEN <<>>
    ELSE LET e == CHOOSE e \in S : TRUE IN <<e>> \o SetToSeq(S \ {e})

(***************************************************************************)
(* utils.GetTransformedGroupName and clients.New                            *)
(***************************************************************************)
\* The rule list the name transform walks (utils.go:279-282).
selectPatterns(c, typeName) ==
    IF typeName \in DOMAIN c.pattern THEN c.pattern[typeName]
    ELSE IF "default" \in DOMAIN c.pattern THEN c.pattern["default"]
    ELSE <<>>

\* The walk over a rule list that lets a later match win.
walkPatternsLastMatch(patterns, input) ==
    LET hits == {i \in DOMAIN patterns :
                    /\ regexpCompiles(patterns[i].input)
                    /\ Len(FindStringSubmatch(patterns[i].input, input)) > 0}
    IN IF hits = {} THEN [err |-> "no matching pattern", chars |-> <<>>]
       ELSE LET last == CHOOSE i \in hits : \A j \in hits : j <= i
            IN [err |-> "",
                chars |-> processGroupName(patterns[last].output,
                                           FindStringSubmatch(patterns[last].input, input))]

\* utils.go:284-296: the rules in declared order; a regular expression that
\* does not compile ends the walk with an error, the first match ends it
\* with the processed output.
walkPatterns(patterns, input) ==
    LET Walk[i \in 0..Len(patterns)] ==
            \* what is known after the last i rules of the list
            IF i = 0 THEN [err |-> "no matching pattern", chars |-> <<>>]
            ELSE LET p == patterns[Len(patterns) - i + 1] IN
                 IF ~regexpCompiles(p.input)
                 THEN [err |-> "invalid regex pattern", chars |-> <<>>]
                 ELSE Bind(FindStringSubmatch(p.input, input), LAMBDA matches :
                      IF Len(matches) > 0
                      THEN [err |-> "", chars |-> processGroupName(p.output, matches)]
                      ELSE Walk[i - 1])
    IN Walk[Len(patterns)]

\* The name transform that goes on to the default rules when the rules of
\* the type have no match.
transformWithFallbackOnMiss(c, typeName, inputStr) ==
    Bind(walkPatterns(selectPatterns(c, typeName), KeyChars[inputStr]), LAMBDA own :
    IF own.err = "no matching pattern" /\ "default" \in DOMAIN c.pattern
    THEN walkPatterns(c.pattern["default"], KeyChars[inputStr])
    ELSE own)

transformGroupName(c, typeName, inputStr) ==
    walkPatterns(selectPatterns(c, typeName), KeyChars[inputStr])

GetTransformedGroupName(c, typeName, inputStr) ==
    Bind(transformGroupName(c, typeName, inputStr), LAMBDA r :
    IF r.err # "" THEN [err |-> TRUE, name |-> ""]
    ELSE [err |-> FALSE, name |-> NameOf(r.chars)])

\* clients.New: "ok" or the error it returns.
clientsNew(b, backendMap) ==
    IF BackendKey(b) \notin DOMAIN backendMap THEN "invalid backend"
    ELSE IF ~backendMap[BackendKey(b)].enabled THEN "backend is not enabled"
    ELSE "ok"

(***************************************************************************)
(* Failures of the outside world. A fault names who fails and at which      *)
(* step; during one operation every call of that kind fails.                *)
(***************************************************************************)
Fault(who, step) == [who |-> who, step |-> step]

Fails(faults, who, step) == Fault(who, step) \in faults

\* The store of the state an operation runs in: cache, backends, and the
\* observation of the calls made.
Env(c, t, m, bu, cl, dt) ==
    [cache |-> c, teams |-> t, members |-> m, busers |-> bu, calls |-> cl,
     deletedTeams |-> dt]

\* A call on behalf of backend bkey; ok says that the callee did its work.
Call(op, bkey, args, ok) == [op |-> op, b |-> bkey, args |-> args, ok |-> ok]

Log(env, op, bkey, args, ok) ==
    [env EXCEPT !.calls = Append(@, Call(op, bkey, args, ok))]

\* Cache.Get: hit says that the call did not fail and the key is there (a
\* miss comes back as an error of its own: inmemory "key not found",
\* redis.Nil).
CacheGet(env, bkey, key, failing) ==
    [env |-> Log(env, "CacheGet", bkey, <<key>>, ~failing),
     hit |-> ~failing /\ key \in DOMAIN env.cache]

CacheSet(cch, key, value) == (key :> value) @@ cch

CacheDelete(cch, key) == [k \in DOMAIN cch \ {key} |-> cch[k]]

\* What the last operation was and how it ended: the Kubernetes update that
\* failed (if any), the users whose directory lookup failed, the result
\* Reconcile returned, the keys of backendErrors, whether Reconcile returned
\* from inside the backend loop, and the users that had LDAP data; for a
\* Reconcile that got to line 264, the flag it passed to UpdateStatus and
\* the condition UpdateStatus left on the object in memory.
RunRecord(op, path, k8sFailed, ldapFailed, result, backendErrors, aborted, ldap) ==
    [op |-> op, path |-> path, k8sFailed |-> k8sFailed, ldapFailed |-> ldapFailed,
     result |-> result, backendErrors |-> backendErrors, aborted |-> aborted,
     ldap |-> ldap, finalized |-> FALSE, isError |-> FALSE, cond |-> "",
     reason |-> ""]

NoRun == RunRecord("None", "none", "", {}, "none", {}, FALSE, {})

\* The user_list entry of the cache: a JSON array of user names, written by
\* whoever registers users with the offboarding job.
NoList == [present |-> FALSE, users |-> <<>>]

\* A Run of the offboarding job: whether it got user_list, the cache and the
\* user keys it started from, the users the directory reported not found,
\* the users whose lookup failed otherwise, and the users it counted as
\* offboarded.
SweepRecord(read, cch, userKeys, inactive, lookupFailed, offboarded) ==
    [read |-> read, cache |-> cch, userKeys |-> userKeys, inactive |-> inactive,
     lookupFailed |-> lookupFailed, offboarded |-> offboarded]

NoSweep == SweepRecord(FALSE, [k \in {} |-> EmptyMap], <<>>, {}, {}, {})

\* A Reconcile worker that has no request, the job between two Runs, the
\* mutex free.
IdleWorker ==
    [pc |-> "idle", ldap |-> {}, teamID |-> "", i |-> 0, userDetailsMap |-> EmptyMap,
     newID |-> "", stale |-> FALSE, wroteStale |-> FALSE, err |-> FALSE,
     job |-> [groupName |-> "", members |-> <<>>], created |-> {}]

IdleSweeper ==
    [pc |-> "idle", userKeys |-> <<>>, i |-> 0, userEmail |-> "",
     userData |-> EmptyMap, runs |-> 0, late |-> FALSE]

WorkerIds == {"w1", "w2"}

\* The tasks of the manager: one that runs once and two periodic ones.
TaskIds == {"once", "task1", "task2"}

\* No lookup in the directory yet.
NoLookup ==
    [userID |-> "", wasClosing |-> FALSE, dialOk |-> FALSE, entries |-> -1,
     err |-> "", data |-> FALSE]

\* No call on the in-memory cache yet.
NoImcCall ==
    [op |-> "none", key |-> "", at |-> 0, val |-> "", err |-> "", values |-> <<>>]

\* No call of the name transform yet.
NoBatch ==
    [op |-> "none", n |-> 0, i |-> 0, pc |-> <<>>, failed |-> {}, peak |-> 0,
     returned |-> FALSE, err |-> FALSE]

\* The controller before the manager has started it.
NoWatch ==
    [started |-> FALSE, queue |-> {}, reconciled |-> <<>>, generation |-> <<>>,
     edits |-> 0]

NoOwnerCall ==
    [op |-> "none", refs |-> <<>>, cluster |-> ("a" :> "uid_a") @@ ("b" :> "uid_b"),
     groups |-> <<>>, before |-> <<>>, updated |-> FALSE, err |-> FALSE]

NoCall == [typeName |-> "", inputStr |-> "", err |-> "", chars |-> <<>>]

InitAux ==
    /\ workers = [w \in WorkerIds |-> IdleWorker]
    /\ sweeper = IdleSweeper
    /\ cacheMutex = "free"
    /\ nameCall = NoCall
    /\ ctxDone = FALSE
    /\ units = [t \in TaskIds |->
                  [pc |-> "new", tick |-> FALSE, runs |-> 0, lateStart |-> FALSE]]
    /\ gate = [pc |-> "new", i |-> 0, setOk |-> FALSE, getOk |-> FALSE,
               err |-> ""]
    /\ connClosing = FALSE
    /\ lookup = NoLookup
    /\ imc = [items |-> <<>>, defaultExpiration |-> -1, now |-> 0]
    /\ imcHist = <<>>
    /\ imcLast = NoImcCall
    /\ ownerCall = NoOwnerCall
    /\ batch = NoBatch
    /\ watch = NoWatch

\* A freshly created Group CR in front of an empty cache and empty backends.
InitRecWith(gn, bs, c) ==
    /\ gcr = [exists |-> TRUE, finalizer |-> FALSE, deleting |-> FALSE,
              generation |-> 1, groupName |-> gn, backends |-> bs,
              ownerRefs |-> {}, cond |-> "", reason |-> "", lastApplied |-> 0,
              backendsStatus |-> <<>>]
    /\ cfg = c
    /\ directory = Users
    /\ cache = [k \in {} |-> EmptyMap]
    /\ teams = [k \in BackendKeys |-> {}]
    /\ teamMembers = [k \in BackendKeys |-> [t \in TeamIds |-> {}]]
    /\ busers = [k \in BackendKeys |-> {}]
    /\ calls = <<>>
    /\ lastRun = NoRun
    /\ deletedTeams = {}
    /\ faultMet = FALSE
    /\ recordedAtDeletion = {}
    /\ userList = NoList
    /\ lastSweep = NoSweep
    /\ InitAux

(***************************************************************************)
(* SpecExpand: the expansion step of Reconcile on an arbitrary Group graph. *)
(***************************************************************************)
NoFetch == FetchResult("unset", <<>>, 0, 0)

InitExpand ==
    /\ \/ \E l \in LenAssignments : store \in StoresWith(l)
       \/ \E l \in WithoutC : store \in StoresWithout(l)
    /\ expRoot = ""
    /\ fetched = NoFetch
    /\ reconciledUsers = <<>>
    /\ InitRecWith(ReconciledName, <<BFt, BRv>>, CfgDefault)

\* group_controller.go:129-137 for the Group named root.
Expand(root) ==
    /\ expRoot = ""
    /\ expRoot' = root
    /\ fetched' = fetchUniqueGroupMembers(store, root, {}, 1)
    /\ reconciledUsers' = IF fetched'.err = "none"
                          THEN deduplicateMembers(fetched'.members)
                          ELSE reconciledUsers
    /\ UNCHANGED <<store, varsRec>>
    /\ UNCHANGED varsAux

NextExpand == \E root \in DOMAIN store : Expand(root)

SpecExpand == InitExpand /\ [][NextExpand]_vars

(***************************************************************************)
(* Reference notions for the expansion claims                               *)
(***************************************************************************)
Children(st, n) == Range(st[n].groups) \cap DOMAIN st

NoDuplicates(s) == \A i, j \in DOMAIN s : i # j => s[i] # s[j]

\* The simple paths (no node twice) of the Group graph that start at root.
SimplePaths(st, root) ==
    {p \in UNION {[1..n -> DOMAIN st] : n \in 1..Cardinality(DOMAIN st)} :
        /\ p[1] = root
        /\ NoDuplicates(p)
        /\ \A i \in 1..(Len(p) - 1) : p[i + 1] \in Children(st, p[i])}

SimplePathNodes(st, root) == UNION {Range(p) : p \in SimplePaths(st, root)}

SimplePathUsers(st, root) ==
    UNION {Range(st[n].users) : n \in SimplePathNodes(st, root)}

\* Some Group reaches itself.
HasCycle(st) ==
    \E n \in DOMAIN st : \E p \in SimplePaths(st, n) : n \in Children(st, p[Len(p)])

\* Textbook depth-first preorder (global visited set): the nodes in the
\* order the traversal first sees them.
RECURSIVE PreorderVisit(_, _, _)
PreorderVisit(st, n, seen) ==
    IF n \in Range(seen) \/ n \notin DOMAIN st THEN seen
    ELSE LET subs == st[n].groups
             V[i \in 0..Len(subs)] ==
                 IF i = 0 THEN Append(seen, n) ELSE PreorderVisit(st, subs[i], V[i - 1])
         IN V[Len(subs)]

ConcatUsers(st, nodes) ==
    LET C[i \in 0..Len(nodes)] ==
            IF i = 0 THEN <<>> ELSE C[i - 1] \o st[nodes[i]].users
    IN C[Len(nodes)]

FirstIndex(s, e) == CHOOSE i \in DOMAIN s : s[i] = e /\ \A j \in 1..(i - 1) : s[j] # e

Expanded == expRoot # "" /\ fetched.err = "none"

(***************************************************************************)
(* C6. Expansion soundness: the users fetchUniqueGroupMembers returns for a *)
(* node are exactly the members.users of the nodes on the simple paths that *)
(* start at it; in an acyclic graph that is the node's own users united     *)
(* with the expansions of its children.                                     *)
(***************************************************************************)
C6_ExpansionSoundness ==
    Expanded =>
        /\ Range(fetched.members) = SimplePathUsers(store, expRoot)
        /\ ~HasCycle(store) =>
               Range(fetched.members) =
                   Range(store[expRoot].users) \cup
                   UNION {Range(fetchUniqueGroupMembers(store, c, {}, 1).members) :
                              c \in Children(store, expRoot)}

\* A node in a two-node cycle whose users all come from the other node.
C6_Witness ==
    /\ Expanded
    /\ store[expRoot].users = <<>>
    /\ \E n \in Children(store, expRoot) : n # expRoot /\ expRoot \in Children(store, n)
    /\ Range(fetched.members) = Users

(***************************************************************************)
(* C7. Cycle tolerance: on every graph, self-references and cycles          *)
(* included, the traversal ends (its recursion is never deeper than the     *)
(* number of Groups plus one), and a call for a node already on the current *)
(* path returns the empty list without reading the store or recursing.      *)
(***************************************************************************)
C7_CycleTolerance ==
    /\ fetched.err # "diverged"
    /\ fetched.depth <= Cardinality(GroupNames) + 1
    /\ \A n \in GroupNames : \A onPath \in SUBSET GroupNames :
           n \in onPath =>
               fetchUniqueGroupMembers(store, n, onPath, 1) = FetchResult("none", <<>>, 0, 1)

\* A node that names itself and lies on a cycle of two nodes.
C7_Witness ==
    /\ Expanded
    /\ expRoot \in Children(store, expRoot)
    /\ \E n \in Children(store, expRoot) : n # expRoot /\ expRoot \in Children(store, n)

(***************************************************************************)
(* C8. Deduplication: status.ReconciledUsers holds every expanded user      *)
(* exactly once, in the order the depth-first traversal first sees them     *)
(* (a Group's own users before its children's, children in declared order). *)
(***************************************************************************)
C8_Deduplication ==
    Expanded =>
        LET all == ConcatUsers(store, PreorderVisit(store, expRoot, <<>>)) IN
        /\ NoDuplicates(reconciledUsers)
        /\ Range(reconciledUsers) = Range(all)
        /\ \A i, j \in DOMAIN reconciledUsers :
               i < j => FirstIndex(all, reconciledUsers[i]) < FirstIndex(all, reconciledUsers[j])

\* The same user is listed by the root after another user and again by a child.
C8_Witness ==
    /\ Expanded
    /\ Len(fetched.members) > Len(reconciledUsers)
    /\ Len(reconciledUsers) = 2
    /\ Len(store[expRoot].users) = 2
    /\ Children(store, expRoot) # {}

(***************************************************************************)
(* The backends as the adapters see them. A call that fails has no effect,  *)
(* except a batched AddUserToTeam or RemoveUserFromTeam, which may have     *)
(* applied part of its batch (fivetran team membership adapter).            *)
(***************************************************************************)
\* The id CreateTeam returns for a team of the given name.
CreateTeamID(b, name) == IF b.type = "rover" THEN name ELSE FivetranTeamId[name]

\* The id CreateUser returns for the given user.
CreateUserID(b, user) == IF b.type = "rover" THEN user ELSE FivetranUserId[user]

AddUserToTeam(env, b, teamID, userIDs, faults, partial) ==
    LET key == BackendKey(b)
        failing == Fails(faults, key, "addUsers")
        e1 == Log(env, "AddUserToTeam", key, userIDs, ~failing)
    IN IF failing
       THEN [env |-> [e1 EXCEPT !.members[key][teamID] = @ \cup (Range(userIDs) \cap partial)],
             err |-> TRUE]
       ELSE [env |-> [e1 EXCEPT !.members[key][teamID] = @ \cup Range(userIDs)],
             err |-> FALSE]

RemoveUserFromTeam(env, b, teamID, userIDs, faults, partial) ==
    LET key == BackendKey(b)
        failing == Fails(faults, key, "removeUsers")
        e1 == Log(env, "RemoveUserFromTeam", key, userIDs, ~failing)
    IN IF failing
       THEN [env |-> [e1 EXCEPT !.members[key][teamID] = @ \ (Range(userIDs) \cap partial)],
             err |-> TRUE]
       ELSE [env |-> [e1 EXCEPT !.members[key][teamID] = @ \ Range(userIDs)],
             err |-> FALSE]

\* DeleteTeamByID that succeeded: fivetran drops the team, rover does nothing.
TeamDeleted(env, b, teamID) ==
    LET key == BackendKey(b)
        e1 == [env EXCEPT !.deletedTeams = @ \cup {<<key, teamID>>}]
    IN IF b.type = "rover" THEN e1
       ELSE [e1 EXCEPT !.teams[key] = @ \ {teamID}, !.members[key][teamID] = {}]

(***************************************************************************)
(* fetchOrCreateTeam                                                        *)
(***************************************************************************)
\* Lines 495-516: the team is not in the cache (or the read failed).
createTeamAndCache(env, b, name, teamDetailsMap, faults) ==
    LET key == BackendKey(b)
        createFails == Fails(faults, key, "createTeam")
        setFails == Fails(faults, key, "teamCacheSet")
        newID == CreateTeamID(b, name)
        e1 == Log(env, "CreateTeam", key, <<name>>, ~createFails)
        e2 == [e1 EXCEPT !.teams[key] = @ \cup {newID}]
        e3 == Log(e2, "CacheSet", key, <<name>>, ~setFails)
    IN IF createFails THEN [env |-> e1, err |-> TRUE, teamID |-> ""]
       ELSE IF setFails THEN [env |-> e3, err |-> TRUE, teamID |-> ""]
       ELSE [env |-> [e3 EXCEPT !.cache =
                          CacheSet(@, name, (key :> newID) @@ teamDetailsMap)],
             err |-> FALSE, teamID |-> newID]

\* A fetchOrCreateTeam that never looks into the cache.
fetchOrCreateTeamNoCache(env, c, groupName, b, faults) ==
    Bind(GetTransformedGroupName(c, b.type, groupName), LAMBDA t :
    IF t.err THEN [env |-> env, err |-> TRUE, teamID |-> ""]
    ELSE createTeamAndCache(env, b, t.name, EmptyMap, faults))

fetchOrCreateTeam(env, c, groupName, b, faults) ==
    LET key == BackendKey(b) IN
    Bind(GetTransformedGroupName(c, b.type, groupName), LAMBDA t :
    IF t.err THEN [env |-> env, err |-> TRUE, teamID |-> ""]
    ELSE
    Bind(CacheGet(env, key, t.name, Fails(faults, key, "teamCacheGet")), LAMBDA get :
    LET teamDetailsMap == IF get.hit THEN env.cache[t.name] ELSE EmptyMap IN
    IF get.hit /\ key \in DOMAIN teamDetailsMap
    THEN [env |-> get.env, err |-> FALSE, teamID |-> teamDetailsMap[key]]
    ELSE createTeamAndCache(get.env, b, t.name, teamDetailsMap, faults)))

(***************************************************************************)
(* createUsersInBackendAndCache. ldap is the set of users that have LDAP    *)
(* data (the keys of allLdapUserData).                                      *)
(***************************************************************************)
\* Lines 437-458: the user is not in the cache (or the read failed).
createUserAndCache(env, user, b, userDetailsMap, faults) ==
    LET key == BackendKey(b)
        createFails == Fails(faults, key, "createUser")
        setFails == Fails(faults, key, "userCacheSet")
        newID == CreateUserID(b, user)
        e1 == Log(env, "CreateUser", key, <<user>>, ~createFails)
        e2 == IF b.type = "rover" THEN e1
              ELSE [e1 EXCEPT !.busers[key] = @ \cup {newID}]
        e3 == Log(e2, "CacheSet", key, <<EmailOf[user]>>, ~setFails)
    IN IF createFails THEN [env |-> e1, err |-> TRUE]
       ELSE IF setFails THEN [env |-> e3, err |-> TRUE]
       ELSE [env |-> [e3 EXCEPT !.cache =
                          CacheSet(@, EmailOf[user], (key :> newID) @@ userDetailsMap)],
             err |-> FALSE]

createUserInBackendAndCache(env, user, b, faults) ==
    LET key == BackendKey(b) IN
    Bind(CacheGet(env, key, EmailOf[user], Fails(faults, key, "userCacheGet")),
         LAMBDA get :
    LET userDetailsMap == IF get.hit THEN env.cache[EmailOf[user]] ELSE EmptyMap IN
    IF get.hit /\ key \in DOMAIN userDetailsMap THEN [env |-> get.env, err |-> FALSE]
    ELSE createUserAndCache(get.env, user, b, userDetailsMap, faults))

createUsersInBackendAndCache(env, users, b, ldap, faults) ==
    LET Step[i \in 0..Len(users)] ==
            IF i = 0 THEN [env |-> env, err |-> FALSE]
            ELSE Bind(Step[i - 1], LAMBDA acc :
                 IF acc.err THEN acc
                 ELSE IF users[i] \notin ldap THEN acc
                 ELSE createUserInBackendAndCache(acc.env, users[i], b, faults))
    IN Step[Len(users)]

(***************************************************************************)
(* processUsers. existingTeamMembers is the key set of the map that         *)
(* FetchTeamMembersByTeamID returned; the loop over that map appends in     *)
(* some order, here the order of SetToSeq.                                  *)
(***************************************************************************)
\* Lines 365-389: one user of the group, with LDAP data.
lookupUserID(acc, user, b, faults) ==
    LET key == BackendKey(b) IN
    Bind(CacheGet(acc.env, key, EmailOf[user], Fails(faults, key, "procCacheGet")),
         LAMBDA get :
    IF ~get.hit THEN [acc EXCEPT !.env = get.env, !.err = TRUE]
    ELSE IF key \notin DOMAIN acc.env.cache[EmailOf[user]]
    THEN [acc EXCEPT !.env = get.env, !.err = TRUE]
    ELSE [acc EXCEPT !.env = get.env,
                     !.userIDsToSync = Append(@, acc.env.cache[EmailOf[user]][key])])

\* A diff that removes only the users without LDAP data.
processUsersNoStale(env, groupUsers, existingTeamMembers, b, ldap, faults) ==
    LET Loop[i \in 0..Len(groupUsers)] ==
            IF i = 0
            THEN [env |-> env, err |-> FALSE, userIDsToSync |-> <<>>, usersToRemove |-> <<>>]
            ELSE
            Bind(Loop[i - 1], LAMBDA acc :
            IF acc.err THEN acc
            ELSE IF groupUsers[i] \notin ldap
            THEN IF groupUsers[i] \in existingTeamMembers
                 THEN [acc EXCEPT !.usersToRemove = Append(@, groupUsers[i])]
                 ELSE acc
            ELSE lookupUserID(acc, groupUsers[i], b, faults))
    IN Bind(Loop[Len(groupUsers)], LAMBDA r :
       IF r.err
       THEN [env |-> r.env, err |-> TRUE, usersToAdd |-> <<>>, usersToRemove |-> <<>>]
       ELSE [env |-> r.env, err |-> FALSE,
             usersToAdd |-> SelectSeq(r.userIDsToSync,
                                      LAMBDA id : id \notin existingTeamMembers),
             usersToRemove |->
                 r.usersToRemove])

processUsers(env, groupUsers, existingTeamMembers, b, ldap, faults) ==
    LET Loop[i \in 0..Len(groupUsers)] ==
            IF i = 0
            THEN [env |-> env, err |-> FALSE, userIDsToSync |-> <<>>, usersToRemove |-> <<>>]
            ELSE
            Bind(Loop[i - 1], LAMBDA acc :
            IF acc.err THEN acc
            ELSE IF groupUsers[i] \notin ldap
            THEN IF groupUsers[i] \in existingTeamMembers
                 THEN [acc EXCEPT !.usersToRemove = Append(@, groupUsers[i])]
                 ELSE acc
            ELSE lookupUserID(acc, groupUsers[i], b, faults))
    IN Bind(Loop[Len(groupUsers)], LAMBDA r :
       IF r.err
       THEN [env |-> r.env, err |-> TRUE, usersToAdd |-> <<>>, usersToRemove |-> <<>>]
       ELSE [env |-> r.env, err |-> FALSE,
             usersToAdd |-> SelectSeq(r.userIDsToSync,
                                      LAMBDA id : id \notin existingTeamMembers),
             usersToRemove |->
                 r.usersToRemove
                 \o SetToSeq({id \in existingTeamMembers :
                                  id \notin Range(r.userIDsToSync)})])

(***************************************************************************)
(* deleteBackendsTeam: the finalizer's cleanup, backend by backend.         *)
(***************************************************************************)
\* A cleanup that reports success whatever DeleteTeamByID returned.
deleteBackendTeamUnchecked(env, c, g, b, faults) ==
    [env |-> Log(env, "DeleteTeamByID", BackendKey(b), <<g.groupName>>,
                 ~Fails(faults, BackendKey(b), "deleteTeam")),
     err |-> FALSE]

\* Lines 302-336: the cache holds a team id for the backend.
deleteTeamAndForget(env, b, name, teamDetailsMap, faults) ==
    LET key == BackendKey(b)
        teamID == teamDetailsMap[key]
        deleteFails == Fails(faults, key, "deleteTeam")
        cacheDeleteFails == Fails(faults, key, "delCacheDelete")
        setFails == Fails(faults, key, "delCacheSet")
        rest == [k \in DOMAIN teamDetailsMap \ {key} |-> teamDetailsMap[k]]
        e1 == Log(env, "DeleteTeamByID", key, <<teamID>>, ~deleteFails)
        e2 == TeamDeleted(e1, b, teamID)
        e3 == Log(e2, "CacheDelete", key, <<name>>, ~cacheDeleteFails)
        e4 == [e3 EXCEPT !.cache = CacheDelete(@, name)]
        e5 == Log(e4, "CacheSet", key, <<name>>, ~setFails)
    IN IF deleteFails THEN [env |-> e1, err |-> TRUE]
       ELSE IF cacheDeleteFails THEN [env |-> e3, err |-> TRUE]
       ELSE IF DOMAIN rest = {} THEN [env |-> e4, err |-> FALSE]
       ELSE IF setFails THEN [env |-> e5, err |-> TRUE]
       ELSE [env |-> [e5 EXCEPT !.cache = CacheSet(@, name, rest)], err |-> FALSE]

deleteBackendTeam(env, c, g, b, faults) ==
    LET key == BackendKey(b) IN
    Bind(GetTransformedGroupName(c, b.type, g.groupName), LAMBDA t :
    IF t.err THEN [env |-> env, err |-> TRUE]
    ELSE IF clientsNew(b, c.backendMap) # "ok" THEN [env |-> env, err |-> TRUE]
    ELSE
    Bind(CacheGet(env, key, t.name, Fails(faults, key, "delCacheGet")), LAMBDA get :
    \* err == nil && teamDetailsInCache != "": anything else skips the backend
    IF ~get.hit THEN [env |-> get.env, err |-> FALSE]
    ELSE IF key \notin DOMAIN env.cache[t.name] THEN [env |-> get.env, err |-> FALSE]
    ELSE deleteTeamAndForget(get.env, b, t.name, env.cache[t.name], faults)))

deleteBackendsTeam(env, c, g, faults) ==
    LET Step[i \in 0..Len(g.backends)] ==
            IF i = 0 THEN [env |-> env, err |-> FALSE]
            ELSE Bind(Step[i - 1], LAMBDA acc :
                 IF acc.err THEN acc
                 ELSE deleteBackendTeam(acc.env, c, g, g.backends[i], faults))
    IN Step[Len(g.backends)]

(***************************************************************************)
(* The loop of Reconcile over spec.backends (group_controller.go:163-245).  *)
(* backendErrors is the key set of the map of that name (keyed by           *)
(* backend.Type); aborted says that Reconcile returned from inside the loop.*)
(***************************************************************************)
\* Lines 222-241: the two membership calls, each returning from Reconcile
\* when it fails.
\* A membership sync that never removes anybody.
syncMembershipAddOnly(acc, env, b, teamID, usersToAdd, usersToRemove, faults, partial) ==
    Bind(IF Len(usersToAdd) > 0
         THEN AddUserToTeam(env, b, teamID, usersToAdd, faults, partial)
         ELSE [env |-> env, err |-> FALSE], LAMBDA a :
    IF a.err THEN [acc EXCEPT !.env = a.env, !.aborted = TRUE]
    ELSE [acc EXCEPT !.env = a.env])

\* The two batch calls the other way round: the removals, then the additions.
syncMembershipRemoveFirst(acc, env, b, teamID, usersToAdd, usersToRemove, faults, partial) ==
    Bind(IF Len(usersToRemove) > 0
         THEN RemoveUserFromTeam(env, b, teamID, usersToRemove, faults, partial)
         ELSE [env |-> env, err |-> FALSE], LAMBDA rm :
    IF rm.err THEN [acc EXCEPT !.env = rm.env, !.aborted = TRUE]
    ELSE
    Bind(IF Len(usersToAdd) > 0
         THEN AddUserToTeam(rm.env, b, teamID, usersToAdd, faults, partial)
         ELSE [env |-> rm.env, err |-> FALSE], LAMBDA a :
    IF a.err THEN [acc EXCEPT !.env = a.env, !.aborted = TRUE]
    ELSE [acc EXCEPT !.env = a.env]))

syncMembership(acc, env, b, teamID, usersToAdd, usersToRemove, faults, partial) ==
    Bind(IF Len(usersToAdd) > 0
         THEN AddUserToTeam(env, b, teamID, usersToAdd, faults, partial)
         ELSE [env |-> env, err |-> FALSE], LAMBDA a :
    IF a.err THEN [acc EXCEPT !.env = a.env, !.aborted = TRUE]
    ELSE
    Bind(IF Len(usersToRemove) > 0
         THEN RemoveUserFromTeam(a.env, b, teamID, usersToRemove, faults, partial)
         ELSE [env |-> a.env, err |-> FALSE], LAMBDA rm :
    IF rm.err THEN [acc EXCEPT !.env = rm.env, !.aborted = TRUE]
    ELSE [acc EXCEPT !.env = rm.env]))

\* A backend error recorded in the map only, the flag left as it was.
recordBackendErrorNoFlag(acc, env, b) ==
    [acc EXCEPT !.env = env, !.backendErrors = @ \cup {b.type}]

\* Lines 174-176, 184-186, 194-196, 204-206, 216-218: the error goes into
\* backendErrors under the backend's type, isError is raised, and the loop
\* continues.
recordBackendError(acc, env, b) ==
    [acc EXCEPT !.env = env, !.backendErrors = @ \cup {b.type}, !.isError = TRUE]

reconcileBackend(acc, c, groupName, uniqueMembers, b, ldap, faults, partial) ==
    LET key == BackendKey(b)
        newOk == clientsNew(b, c.backendMap) = "ok"
        fetchFails == Fails(faults, key, "fetchMembers")
        failed(env) == recordBackendError(acc, env, b)
    IN IF ~newOk THEN failed(Log(acc.env, "clients.New", key, <<>>, FALSE))
       ELSE
       Bind(fetchOrCreateTeam(Log(acc.env, "clients.New", key, <<>>, TRUE),
                              c, groupName, b, faults), LAMBDA t :
       IF t.err THEN failed(t.env)
       ELSE
       Bind(createUsersInBackendAndCache(t.env, uniqueMembers, b, ldap, faults),
            LAMBDA u :
       IF u.err THEN failed(u.env)
       ELSE
       Bind(Log(u.env, "FetchTeamMembersByTeamID", key, <<t.teamID>>, ~fetchFails),
            LAMBDA e1 :
       IF fetchFails THEN failed(e1)
       ELSE
       Bind(processUsers(e1, uniqueMembers, e1.members[key][t.teamID], b, ldap, faults),
            LAMBDA p :
       IF p.err THEN failed(p.env)
       ELSE syncMembership(acc, p.env, b, t.teamID, p.usersToAdd, p.usersToRemove,
                           faults, partial)))))

reconcileBackends(env, c, g, uniqueMembers, ldap, faults, partial) ==
    LET Iter[i \in 0..Len(g.backends)] ==
            IF i = 0 THEN [env |-> env, backendErrors |-> {}, aborted |-> FALSE,
                           isError |-> FALSE]
            ELSE Bind(Iter[i - 1], LAMBDA acc :
                 IF acc.aborted THEN acc
                 ELSE reconcileBackend(acc, c, g.groupName, uniqueMembers, g.backends[i],
                                       ldap, faults, partial))
    IN Iter[Len(g.backends)]

(***************************************************************************)
(* Reconcile (group_controller.go:72-274) as a function of the state it     *)
(* runs in, the faults of the outside world and, for a failing batch call,  *)
(* the part of the batch that was applied.                                  *)
(***************************************************************************)
Outcome(g, env, ru, er, fe, run) ==
    [gcr |-> g, env |-> env, reconciledUsers |-> ru, expRoot |-> er, fetched |-> fe,
     run |-> run]

\* Lines 87-99: the Group carries a deletion timestamp.
reconcileDeletion(env0, faults) ==
    LET out(g, env, k8sFailed, result) ==
            Outcome(g, env, reconciledUsers, expRoot, fetched,
                    RunRecord("Reconcile", "deletion", k8sFailed, {}, result, {}, FALSE, {}))
    IN IF ~gcr.finalizer THEN out(gcr, env0, "", "ok")
       ELSE
       Bind(deleteBackendsTeam(env0, cfg, gcr, faults), LAMBDA d :
       IF d.err THEN out(gcr, d.env, "", "error")
       ELSE IF Fails(faults, "k8s", "removeFinalizer")
       THEN out(gcr, d.env, "removeFinalizer", "error")
       \* with its last finalizer gone the API server removes the object
       ELSE out([gcr EXCEPT !.finalizer = FALSE, !.exists = FALSE], d.env, "", "ok"))

\* Group.SetWaiting: the GroupReady condition becomes Unknown / Waiting.
SetWaiting(g) == [g EXCEPT !.cond = "Unknown", !.reason = "Waiting"]

\* Group.UpdateStatus with the generation recorded whatever isError says.
UpdateStatusAlways(g, isError) ==
    [g EXCEPT !.cond = IF isError THEN "False" ELSE "True",
              !.reason = IF isError THEN "ReconcileFailed"
                         ELSE "SuccessfullyReconciled",
              !.lastApplied = g.generation]

\* Group.UpdateStatus: the condition, and the generation on success only.
UpdateStatus(g, isError) ==
    IF ~isError
    THEN [g EXCEPT !.cond = "True", !.reason = "SuccessfullyReconciled",
                   !.lastApplied = g.generation]
    ELSE [g EXCEPT !.cond = "False", !.reason = "ReconcileFailed"]

\* Lines 160-273: the backends, then the status.
reconcileMembers(env0, g3, f, uniqueMembers, faults, partial) ==
    LET ldapFailed == {u \in Range(uniqueMembers) : Fails(faults, "ldap", u)} IN
    Bind({u \in Range(uniqueMembers) : u \in directory} \ ldapFailed, LAMBDA ldap :
    Bind(reconcileBackends(env0, cfg, g3, uniqueMembers, ldap, faults, partial),
         LAMBDA l :
    LET g4 == UpdateStatus(
                  [g3 EXCEPT
                     !.backendsStatus = [i \in DOMAIN g3.backends |->
                                            [name |-> g3.backends[i].name,
                                             type |-> g3.backends[i].type,
                                             status |-> g3.backends[i].type
                                                            \notin l.backendErrors]]],
                  l.isError)
        late(g, ru, k8sFailed, result) ==
            Outcome(g, l.env, ru, gcr.groupName, f,
                    RunRecord("Reconcile", "normal", k8sFailed, ldapFailed, result,
                              l.backendErrors, l.aborted, ldap))
        final(o) ==
            [o EXCEPT !.run.finalized = TRUE, !.run.isError = l.isError,
                      !.run.cond = g4.cond, !.run.reason = g4.reason]
        \* lines 269-273
        result == IF Cardinality(l.backendErrors) > 0 THEN "error" ELSE "ok"
    IN \* AddUserToTeam or RemoveUserFromTeam failed: returned from inside the loop
       IF l.aborted THEN late(g3, reconciledUsers, "", "error")
       \* the final Status().Update failed: logged only
       ELSE IF Fails(faults, "k8s", "statusFinal")
       THEN final(late(g3, reconciledUsers, "statusFinal", result))
       ELSE final(late(g4, uniqueMembers, "", result))))

\* A Reconcile that leaves the finalizers as they are.
ensureFinalizerSkipped(g) == g

\* Lines 102-103: controllerutil.AddFinalizer if the finalizer is missing.
ensureFinalizer(g) == IF ~g.finalizer THEN [g EXCEPT !.finalizer = TRUE] ELSE g

\* Lines 101-273.
reconcileNormal(env0, faults, partial) ==
    LET desired == Range(store[ReconciledName].groups)
        g1 == ensureFinalizer(gcr)
        g2 == [g1 EXCEPT !.ownerRefs = desired]
        g3 == SetWaiting(g2)
        early(g, k8sFailed) ==
            Outcome(g, env0, reconciledUsers, expRoot, fetched,
                    RunRecord("Reconcile", "normal", k8sFailed, {}, "error", {}, FALSE, {}))
    IN IF ~gcr.finalizer /\ Fails(faults, "k8s", "updateFinalizer")
       THEN early(gcr, "updateFinalizer")
       ELSE IF ~(desired \subseteq DOMAIN store) THEN early(g1, "")
       ELSE IF desired # g1.ownerRefs /\ Fails(faults, "k8s", "updateOwner")
       THEN early(g1, "updateOwner")
       ELSE IF Fails(faults, "k8s", "statusWaiting") THEN early(g2, "statusWaiting")
       ELSE
       Bind(fetchUniqueGroupMembers(store, gcr.groupName, {}, 1), LAMBDA f :
       IF f.err # "none"
       THEN Outcome(g3, env0, reconciledUsers, gcr.groupName, f,
                    RunRecord("Reconcile", "normal", "", {}, "error", {}, FALSE, {}))
       ELSE
       Bind(deduplicateMembers(f.members), LAMBDA uniqueMembers :
       reconcileMembers(env0, g3, f, uniqueMembers, faults, partial)))

ReconcileOutcome(faults, partial) ==
    Bind(Env(cache, teams, teamMembers, busers, <<>>, deletedTeams), LAMBDA env0 :
    IF gcr.deleting THEN reconcileDeletion(env0, faults)
    ELSE reconcileNormal(env0, faults, partial))

(***************************************************************************)
(* Spec: one Group CR, reconciled again and again while its members, the    *)
(* directory and the health of the outside world change.                    *)
(***************************************************************************)
\* metadata.generation stops growing here.
MaxGeneration == 2

NormalSteps ==
    {"teamCacheGet", "createTeam", "teamCacheSet", "userCacheGet", "createUser",
     "userCacheSet", "fetchMembers", "procCacheGet", "addUsers", "removeUsers"}

DeletionSteps == {"delCacheGet", "deleteTeam", "delCacheDelete", "delCacheSet"}

\* The faults that can touch a Reconcile of g.
FaultPoints(g) ==
    IF g.deleting
    THEN {Fault(BackendKey(b), s) : b \in Range(g.backends), s \in DeletionSteps}
         \cup {Fault("k8s", "removeFinalizer")}
    ELSE {Fault(BackendKey(b), s) : b \in Range(g.backends), s \in NormalSteps}
         \cup {Fault("k8s", s) : s \in {"updateFinalizer", "updateOwner",
                                        "statusWaiting", "statusFinal"}}
         \cup {Fault("ldap", u) : u \in Users}

\* One operation meets at most one fault.
FaultSets(points) == {{p} : p \in points}

\* What a failing batch call applied: nothing, or one id of the batch.
PartialChoices(faults) ==
    IF \E p \in faults : p.step \in {"addUsers", "removeUsers"}
    THEN {{}} \cup {{id} : id \in UserIds}
    ELSE {{}}

\* The namespace of Spec: a and b nest each other; c does not exist.
SpecStore ==
    ("a" :> [users |-> <<"x", "y">>, groups |-> <<"b">>]) @@
    ("b" :> [users |-> <<"x">>, groups |-> <<"a">>])

\* spec.members.users of the reconciled Group after an edit.
MemberEdits == {<<>>, <<"y", "x", "y">>}

\* The users that leave and rejoin the directory.
Leavers == {"y"}

\* The deployments: spec.group_name (the CR's own object name, or a name no
\* Group object has), spec.backends and the configuration.
Scenarios ==
    {<<"a", <<BFt, BRv>>, CfgDefault>>,
     <<"a", <<BRv, BFt>>, CfgPerType>>,
     <<"a", <<BFt, BFt2>>, CfgDefault>>,
     <<"a", <<BFt, BRv>>, CfgRoverNoMatch>>,
     <<"a", <<BFt, BRv>>, CfgRoverDisabled>>,
     <<"c", <<BFt, BRv>>, CfgDefault>>}

InitRec == \E sc \in Scenarios : InitRecWith(sc[1], sc[2], sc[3])

Init ==
    /\ store = SpecStore
    /\ expRoot = ""
    /\ fetched = NoFetch
    /\ reconciledUsers = <<>>
    /\ InitRec

\* The operation met a fault: a call failed, a Kubernetes update failed or a
\* directory lookup failed (clients.New fails by configuration only).
FaultMet(o) ==
    \/ o.run.k8sFailed # ""
    \/ o.run.ldapFailed # {}
    \/ \E i \in DOMAIN o.env.calls :
           ~o.env.calls[i].ok /\ o.env.calls[i].op # "clients.New"

Reconcile(faults, partial) ==
    /\ gcr.exists
    /\ \E o \in {ReconcileOutcome(faults, partial)} :
       /\ faultMet' = (faultMet \/ (~gcr.deleting /\ FaultMet(o)))
       /\ gcr' = o.gcr
       /\ reconciledUsers' = o.reconciledUsers
       /\ expRoot' = o.expRoot
       /\ fetched' = o.fetched
       /\ cache' = o.env.cache
       /\ teams' = o.env.teams
       /\ teamMembers' = o.env.members
       /\ busers' = o.env.busers
       /\ calls' = o.env.calls
       /\ deletedTeams' = o.env.deletedTeams
       /\ lastRun' = o.run
    /\ lastSweep' = NoSweep
    /\ nameCall' = NoCall
    /\ UNCHANGED <<store, cfg, directory, recordedAtDeletion, userList>>
    /\ UNCHANGED <<varsConc, varsTasks, varsMore>>

\* The team id the cache records for backend b of Group g ("" if none).
RecordedTeam(cch, c, g, b) ==
    LET t == GetTransformedGroupName(c, b.type, g.groupName) IN
    IF t.err THEN ""
    ELSE IF t.name \notin DOMAIN cch THEN ""
    ELSE IF BackendKey(b) \notin DOMAIN cch[t.name] THEN ""
    ELSE cch[t.name][BackendKey(b)]

\* kubectl delete: the deletion timestamp is set; an object without
\* finalizers is gone at once.
RequestDeletion ==
    /\ gcr.exists
    /\ ~gcr.deleting
    /\ gcr' = [gcr EXCEPT !.deleting = TRUE, !.exists = gcr.finalizer]
    /\ recordedAtDeletion' =
           {<<BackendKey(b), RecordedTeam(cache, cfg, gcr, b)>> :
                b \in {d \in Range(gcr.backends) : RecordedTeam(cache, cfg, gcr, d) # ""}}
    /\ calls' = <<>>
    /\ lastRun' = [NoRun EXCEPT !.op = "RequestDeletion"]
    /\ lastSweep' = NoSweep
    /\ UNCHANGED <<store, expRoot, fetched, reconciledUsers, cfg, directory, cache,
                   teams, teamMembers, busers, deletedTeams, faultMet, userList>>
    /\ UNCHANGED varsAux

\* An edit of spec.members.users of the reconciled Group.
EditMembers(us) ==
    /\ gcr.exists
    /\ ~gcr.deleting
    /\ gcr.generation < MaxGeneration
    /\ store[ReconciledName].users # us
    /\ store' = [store EXCEPT ![ReconciledName].users = us]
    /\ gcr' = [gcr EXCEPT !.generation = @ + 1]
    /\ calls' = <<>>
    /\ lastRun' = [NoRun EXCEPT !.op = "EditMembers"]
    /\ lastSweep' = NoSweep
    /\ UNCHANGED <<expRoot, fetched, reconciledUsers, cfg, directory, cache, teams,
                   teamMembers, busers, deletedTeams, faultMet, recordedAtDeletion,
                   userList>>
    /\ UNCHANGED varsAux

\* A user leaves or (re)joins the directory.
DirectoryChange(u) ==
    /\ gcr.exists
    /\ directory' = IF u \in directory THEN directory \ {u} ELSE directory \cup {u}
    /\ calls' = <<>>
    /\ lastRun' = [NoRun EXCEPT !.op = "DirectoryChange"]
    /\ lastSweep' = NoSweep
    /\ UNCHANGED <<store, expRoot, fetched, reconciledUsers, gcr, cfg, cache, teams,
                   teamMembers, busers, deletedTeams, faultMet, recordedAtDeletion,
                   userList>>
    /\ UNCHANGED varsAux

\* A Reconcile of the live Group in which nothing outside fails.
ReconcileHealthy == ~gcr.deleting /\ Reconcile({}, {})

\* A Reconcile of the live Group that meets a fault; the behaviours explored
\* have at most one such Reconcile.
ReconcileFaulty ==
    /\ ~gcr.deleting
    /\ ~faultMet
    /\ \E faults \in FaultSets(FaultPoints(gcr)) :
           \E partial \in PartialChoices(faults) : Reconcile(faults, partial)

\* A Reconcile of the Group under deletion, with and without a fault.
ReconcileDeletingClean == gcr.deleting /\ Reconcile({}, {})

ReconcileDeletingFaulty ==
    /\ gcr.deleting
    /\ \E faults \in FaultSets(FaultPoints(gcr)) : Reconcile(faults, {})

EditAny == \E us \in MemberEdits : EditMembers(us)

DirectoryAny == \E u \in Leavers : DirectoryChange(u)

\* Spec: the live Group.
Next == ReconcileHealthy \/ ReconcileFaulty \/ EditAny \/ DirectoryAny

Spec == Init /\ [][Next]_vars

\* SpecDeletion: the Group from its creation to its removal. A Reconcile
\* that returns an error is requeued, so Reconcile keeps being called while
\* the Group is there, and calls in which nothing fails keep happening.
NextDeletion ==
    \/ ReconcileHealthy
    \/ ReconcileFaulty
    \/ RequestDeletion
    \/ ReconcileDeletingClean
    \/ ReconcileDeletingFaulty

SpecDeletion == Init /\ [][NextDeletion]_vars /\ WF_vars(ReconcileDeletingClean)

(***************************************************************************)
(* The offboarding job (periodicjobs/job_usernaut_offboarding.go).          *)
(***************************************************************************)
\* The key matches the pattern "*" + userKey + "*": userKey occurs in it.
MatchesPattern(userKey, key) ==
    LET p == KeyChars[userKey]
        k == KeyChars[key]
    IN \E i \in 1..(Len(k) - Len(p) + 1) : SubSeq(k, i, i + Len(p) - 1) = p

\* The lowercased last "_"-separated part of a backend key.
BackendTypeOfKey ==
    ("ft_fivetran" :> "fivetran") @@ ("rv_rover" :> "rover") @@
    ("ft2_fivetran" :> "fivetran")

skippedBackendTypes == {"gitlab", "rover"}

\* The characters of the keys backendClients can have: the three of the
\* sample deployments, and keys that differ in case, have no underscore or
\* have more than one.
JobKeyChars ==
    ("ft_fivetran" :> <<"f", "t", "_", "f", "i", "v", "e", "t", "r", "a", "n">>) @@
    ("ft2_fivetran" :> <<"f", "t", "2", "_", "f", "i", "v", "e", "t", "r", "a", "n">>) @@
    ("rv_rover" :> <<"r", "v", "_", "r", "o", "v", "e", "r">>) @@
    ("rv_Rover" :> <<"r", "v", "_", "R", "o", "v", "e", "r">>) @@
    ("gl_GITLAB" :> <<"g", "l", "_", "G", "I", "T", "L", "A", "B">>) @@
    ("rover" :> <<"r", "o", "v", "e", "r">>) @@
    ("rover_x_ft" :> <<"r", "o", "v", "e", "r", "_", "x", "_", "f", "t">>)

TypeChars ==
    ("rover" :> <<"r", "o", "v", "e", "r">>) @@
    ("gitlab" :> <<"g", "i", "t", "l", "a", "b">>) @@
    ("fivetran" :> <<"f", "i", "v", "e", "t", "r", "a", "n">>) @@
    ("ft" :> <<"f", "t">>)

\* strings.ToLower, on the letters the keys have.
ToLower(chars) ==
    LET low == ("R" :> "r") @@ ("G" :> "g") @@ ("I" :> "i") @@ ("T" :> "t") @@
               ("L" :> "l") @@ ("A" :> "a") @@ ("B" :> "b")
    IN [i \in 1..Len(chars) |->
           IF chars[i] \in DOMAIN low THEN low[chars[i]] ELSE chars[i]]

\* strings.Split(s, "_"): the parts between the underscores.
RECURSIVE Split(_)
Split(chars) ==
    IF \A i \in 1..Len(chars) : chars[i] # "_" THEN <<chars>>
    ELSE LET n == CHOOSE i \in 1..Len(chars) :
                      chars[i] = "_" /\ \A j \in 1..(i - 1) : chars[j] # "_"
         IN <<SubSeq(chars, 1, n - 1)>> \o Split(SubSeq(chars, n + 1, Len(chars)))

\* The name of a backend type from its characters.
typeNamed(chars) ==
    IF \E t \in DOMAIN TypeChars : TypeChars[t] = chars
    THEN CHOOSE t \in DOMAIN TypeChars : TypeChars[t] = chars
    ELSE "?"

\* The type taken as it is written in the key.
backendTypeCaseSensitive(bkey) ==
    LET parts == Split(JobKeyChars[bkey])
    IN IF Len(parts) < 2 THEN "" ELSE typeNamed(parts[Len(parts)])

\* Lines 456-462: the type of a backend from its key, "" for a key that has
\* fewer than two parts.
backendTypeOf(bkey) ==
    LET parts == Split(JobKeyChars[bkey])
    IN IF Len(parts) < 2 THEN "" ELSE typeNamed(ToLower(parts[Len(parts)]))

\* The keys of the job's backendClients: the backends that are enabled.
backendClients(c) == {k \in DOMAIN c.backendMap : c.backendMap[k].enabled}

\* DeleteUser of the fivetran adapter: the account is dropped.
DeleteUser(env, bkey, userID, failing) ==
    LET e1 == Log(env, "DeleteUser", bkey, <<userID>>, ~failing)
    IN IF failing THEN e1 ELSE [e1 EXCEPT !.busers[bkey] = @ \ {userID}]

isUserActiveInLDAP(userID, faults) ==
    IF Fails(faults, "ldap", userID) THEN "error"
    ELSE IF userID \in directory THEN "active"
    ELSE "inactive"

\* The first entry the loop over GetByPattern's result meets is taken; the
\* result is a Go map, so any matching entry can be the first: firstSeen
\* names it.
getUserDataFromCache(env, userKey, faults, firstSeen) ==
    LET failing == Fails(faults, userKey, "getByPattern")
        found == {k \in DOMAIN env.cache : MatchesPattern(userKey, k)}
        e1 == Log(env, "GetByPattern", "sweep", <<userKey>>, ~failing)
    IN IF failing \/ found = {} THEN [env |-> e1, err |-> TRUE, email |-> ""]
       ELSE [env |-> e1, err |-> FALSE,
             email |-> IF firstSeen[userKey] \in found THEN firstSeen[userKey]
                       ELSE CHOOSE k \in found : TRUE]

\* An offboarding that gives up at the first DeleteUser that fails.
offboardUserStopAtFirst(env, c, userData, faults) ==
    Bind(SetToSeq(backendClients(c)), LAMBDA bs :
    LET Step[i \in 0..Len(bs)] ==
            IF i = 0 THEN [env |-> env, errors |-> {}]
            ELSE Bind(Step[i - 1], LAMBDA acc :
                 IF acc.errors # {} THEN acc
                 ELSE IF backendTypeOf(bs[i]) \in skippedBackendTypes \cup {""} THEN acc
                 ELSE IF bs[i] \notin DOMAIN userData THEN acc
                 ELSE IF Fails(faults, bs[i], "deleteUser")
                 THEN [env |-> DeleteUser(acc.env, bs[i], userData[bs[i]], TRUE),
                       errors |-> acc.errors \cup {bs[i]}]
                 ELSE [env |-> DeleteUser(acc.env, bs[i], userData[bs[i]], FALSE),
                       errors |-> acc.errors])
    IN Bind(Step[Len(bs)], LAMBDA r :
       [env |-> r.env, err |-> r.errors # {}, errors |-> r.errors]))

\* The loop over backendClients is a loop over a Go map; the backends are
\* independent of each other, the order shows in the log of calls only.
offboardUserFromAllBackends(env, c, userData, faults) ==
    Bind(SetToSeq(backendClients(c)), LAMBDA bs :
    LET Step[i \in 0..Len(bs)] ==
            IF i = 0 THEN [env |-> env, errors |-> {}]
            ELSE Bind(Step[i - 1], LAMBDA acc :
                 IF backendTypeOf(bs[i]) \in skippedBackendTypes \cup {""} THEN acc
                 ELSE IF bs[i] \notin DOMAIN userData THEN acc
                 ELSE IF Fails(faults, bs[i], "deleteUser")
                 THEN [env |-> DeleteUser(acc.env, bs[i], userData[bs[i]], TRUE),
                       errors |-> acc.errors \cup {bs[i]}]
                 ELSE [env |-> DeleteUser(acc.env, bs[i], userData[bs[i]], FALSE),
                       errors |-> acc.errors])
    IN Bind(Step[Len(bs)], LAMBDA r :
       [env |-> r.env, err |-> r.errors # {}, errors |-> r.errors]))

\* Its error is logged by offboardUser and goes no further.
removeUserFromUserList(env, list, userID, faults) ==
    LET getFails == Fails(faults, userID, "listGet")
        setFails == Fails(faults, userID, "listSet")
        e1 == Log(env, "CacheGet", "sweep", <<"user_list">>, ~getFails)
        e2 == Log(e1, "CacheSet", "sweep", <<"user_list">>, ~setFails)
    IN IF getFails THEN [env |-> e1, list |-> list]
       ELSE IF setFails THEN [env |-> e2, list |-> list]
       ELSE [env |-> e2,
             list |-> [list EXCEPT !.users = SelectSeq(@, LAMBDA u : u # userID)]]

offboardUser(env, list, c, userKey, faults, firstSeen) ==
    Bind(getUserDataFromCache(env, userKey, faults, firstSeen), LAMBDA d :
    IF d.err THEN [env |-> d.env, list |-> list, err |-> TRUE]
    ELSE
    Bind(offboardUserFromAllBackends(d.env, c, env.cache[d.email], faults), LAMBDA o :
    IF o.err THEN [env |-> o.env, list |-> list, err |-> TRUE]
    ELSE
    LET deleteFails == Fails(faults, userKey, "cacheDelete")
        e1 == Log(o.env, "CacheDelete", "sweep", <<d.email>>, ~deleteFails)
    IN IF deleteFails THEN [env |-> e1, list |-> list, err |-> TRUE]
       ELSE Bind(removeUserFromUserList([e1 EXCEPT !.cache = CacheDelete(@, d.email)],
                                        list, userKey, faults),
                 LAMBDA r : [env |-> r.env, list |-> r.list, err |-> FALSE])))

\* acc: the cache and the backends, user_list, the users whose processing
\* returned an error and the users counted as offboarded.
processUser(acc, c, userKey, faults, firstSeen) ==
    Bind(isUserActiveInLDAP(userKey, faults), LAMBDA isActive :
    IF isActive = "error" THEN [acc EXCEPT !.errors = @ \cup {userKey}]
    ELSE IF isActive = "active" THEN acc
    ELSE Bind(offboardUser(acc.env, acc.list, c, userKey, faults, firstSeen), LAMBDA o :
         IF o.err
         THEN [acc EXCEPT !.env = o.env, !.list = o.list, !.errors = @ \cup {userKey}]
         ELSE [acc EXCEPT !.env = o.env, !.list = o.list,
                          !.offboarded = @ \cup {userKey}]))

jobProcessUsers(env, list, c, userKeys, faults, firstSeen) ==
    LET Loop[i \in 0..Len(userKeys)] ==
            IF i = 0
            THEN [env |-> env, list |-> list, errors |-> {}, offboarded |-> {}]
            ELSE Bind(Loop[i - 1], LAMBDA acc :
                      processUser(acc, c, userKeys[i], faults, firstSeen))
    IN Loop[Len(userKeys)]

\* Run as a function of the state it runs in.
RunOutcome(faults, firstSeen) ==
    Bind(Env(cache, teams, teamMembers, busers, <<>>, deletedTeams), LAMBDA env0 :
    LET readFails == ~userList.present \/ Fails(faults, "sweep", "listRead")
        e1 == Log(env0, "CacheGet", "sweep", <<"user_list">>, ~readFails)
    IN IF readFails
       THEN [env |-> e1, list |-> userList, errors |-> {}, offboarded |-> {},
             read |-> FALSE]
       ELSE Bind(jobProcessUsers(e1, userList, cfg, userList.users, faults, firstSeen),
                 LAMBDA r : [env |-> r.env, list |-> r.list, errors |-> r.errors,
                             offboarded |-> r.offboarded, read |-> TRUE]))

\* The lists of user names user_list is set to.
UserLists == {<<"x">>, <<"y">>, <<"x", "y">>, <<"y", "x">>}

\* The cache keys a pattern search for a user can return.
MatchingKeys(u) == {k \in DOMAIN KeyChars \ Users : MatchesPattern(u, k)}

FirstSeenChoices == {f \in [Users -> DOMAIN KeyChars] : \A u \in Users : f[u] \in MatchingKeys(u)}

\* The faults that can touch a Run over the given user_list.
SweepFaultPoints(list, c) ==
    {Fault(u, s) : u \in Range(list.users),
                   s \in {"getByPattern", "cacheDelete", "listGet", "listSet"}}
    \cup {Fault("ldap", u) : u \in Range(list.users)}
    \cup {Fault(k, "deleteUser") : k \in backendClients(c)}
    \cup {Fault("sweep", "listRead")}

Run(faults, firstSeen) ==
    /\ \E r \in {RunOutcome(faults, firstSeen)} :
       LET userKeys == IF r.read THEN userList.users ELSE <<>>
           lookupFailed == {u \in Range(userKeys) : Fails(faults, "ldap", u)}
           active == {u \in Range(userKeys) : u \in directory} \ lookupFailed
       IN /\ cache' = r.env.cache
          /\ teams' = r.env.teams
          /\ teamMembers' = r.env.members
          /\ busers' = r.env.busers
          /\ calls' = r.env.calls
          /\ deletedTeams' = r.env.deletedTeams
          /\ userList' = r.list
          /\ lastRun' = RunRecord("Run", "sweep", "", lookupFailed,
                                  IF r.read /\ r.errors = {} THEN "ok" ELSE "error",
                                  r.errors, FALSE, active)
          /\ lastSweep' = SweepRecord(r.read, cache, userKeys,
                                      Range(userKeys) \ (active \cup lookupFailed),
                                      lookupFailed, r.offboarded)
    /\ faultMet' = (faultMet \/ faults # {})
    /\ UNCHANGED <<store, expRoot, fetched, reconciledUsers, gcr, cfg, directory,
                   recordedAtDeletion>>
    /\ UNCHANGED varsAux

\* Somebody registers users with the job.
WriteUserList(us) ==
    /\ userList # [present |-> TRUE, users |-> us]
    /\ userList' = [present |-> TRUE, users |-> us]
    /\ calls' = <<>>
    /\ lastRun' = [NoRun EXCEPT !.op = "WriteUserList"]
    /\ lastSweep' = NoSweep
    /\ UNCHANGED <<store, expRoot, fetched, reconciledUsers, gcr, cfg, directory, cache,
                   teams, teamMembers, busers, deletedTeams, faultMet,
                   recordedAtDeletion>>
    /\ UNCHANGED varsAux

RunClean == \E firstSeen \in FirstSeenChoices : Run({}, firstSeen)

\* A Run that meets a fault; the behaviours explored have at most one
\* operation that does.
RunFaulty ==
    /\ ~faultMet
    /\ \E faults \in FaultSets(SweepFaultPoints(userList, cfg)) :
           \E firstSeen \in FirstSeenChoices : Run(faults, firstSeen)

WriteAny == \E us \in UserLists : WriteUserList(us)

LeaveOrJoin == \E u \in Users : DirectoryChange(u)

\* SpecSweep: the Group is reconciled, users leave the directory, the job
\* runs.
NextSweep == ReconcileHealthy \/ LeaveOrJoin \/ WriteAny \/ RunClean \/ RunFaulty

\* The deployments of SpecSweep: fivetran and rover, or two fivetran backends.
InitSweep ==
    /\ Init
    /\ gcr.groupName = ReconciledName
    /\ cfg = CfgDefault

SpecSweep == InitSweep /\ [][NextSweep]_vars

(***************************************************************************)
(* SpecConcurrent: two Reconcile workers and the offboarding job, each a    *)
(* sequence of steps that interleave with the steps of the others. A step   *)
(* is one call on the cache, the directory or a backend, or a stretch of    *)
(* calls on keys nobody else writes.                                        *)
(***************************************************************************)
\* Runs of the job in one behaviour.
MaxRuns == 1

\* The requests a worker may serve: spec.group_name, the backend declared
\* and the expanded members. Group a and Group c share the member y; c
\* declares the rover backend or the fivetran instance that a declares.
WorkerJob ==
    ("w1" :> {[groupName |-> "a", backend |-> BFt, members |-> <<"x", "y">>]}) @@
    ("w2" :> {[groupName |-> "c", backend |-> BRv, members |-> <<"y">>],
              [groupName |-> "c", backend |-> BFt, members |-> <<"y">>]})

EnvNow == Env(cache, teams, teamMembers, busers, <<>>, deletedTeams)

\* createUsersInBackendAndCache, line 416-421: on to the next user that has
\* LDAP data, or out of the loop.
nextUserFrom(me, job, from) ==
    LET rest == {j \in from..Len(job.members) : job.members[j] \in me.ldap} IN
    IF rest = {}
    THEN [me EXCEPT !.pc = "sync", !.i = 0, !.userDetailsMap = EmptyMap, !.newID = ""]
    ELSE [me EXCEPT !.pc = "get", !.i = CHOOSE j \in rest : \A k \in rest : j <= k,
                    !.userDetailsMap = EmptyMap, !.newID = ""]

\* Lines 142-158: the directory is read for every expanded member.
wStart(w) ==
    /\ workers[w].pc = "idle"
    /\ \E job \in WorkerJob[w] :
         workers' = [workers EXCEPT ![w] =
             [@ EXCEPT !.pc = "team", !.job = job,
                       !.ldap = {u \in Range(job.members) : u \in directory}]]
    /\ UNCHANGED <<varsExpand, varsRec, sweeper, cacheMutex>>
    /\ UNCHANGED <<nameCall, varsTasks, varsMore>>

\* Lines 171-187: clients.New and fetchOrCreateTeam.
wTeam(w) ==
    LET job == workers[w].job IN
    /\ workers[w].pc = "team"
    /\ \E t \in {IF clientsNew(job.backend, cfg.backendMap) = "ok"
                  THEN fetchOrCreateTeam(EnvNow, cfg, job.groupName, job.backend, {})
                  ELSE [env |-> EnvNow, err |-> TRUE, teamID |-> ""]} :
         /\ cache' = t.env.cache
         /\ teams' = t.env.teams
         /\ workers' = [workers EXCEPT ![w] =
                IF t.err THEN [@ EXCEPT !.pc = "done", !.err = TRUE]
                ELSE nextUserFrom([@ EXCEPT !.teamID = t.teamID], job, 1)]
    /\ UNCHANGED <<varsExpand, gcr, cfg, directory, teamMembers, busers, calls, lastRun,
                   deletedTeams, faultMet, recordedAtDeletion, userList, lastSweep,
                   sweeper, cacheMutex>>
    /\ UNCHANGED <<nameCall, varsTasks, varsMore>>

\* Line 424-436: Cache.Get of the user's entry.
wGet(w) ==
    LET job == workers[w].job
        me == workers[w]
        key == BackendKey(job.backend)
        email == EmailOf[job.members[me.i]]
        userDetailsMap == IF email \in DOMAIN cache THEN cache[email] ELSE EmptyMap
    IN /\ me.pc = "get"
       /\ workers' = [workers EXCEPT ![w] =
              IF key \in DOMAIN userDetailsMap THEN nextUserFrom(me, job, me.i + 1)
              ELSE [me EXCEPT !.pc = "create", !.userDetailsMap = userDetailsMap]]
       /\ UNCHANGED <<varsExpand, varsRec, sweeper, cacheMutex>>
       /\ UNCHANGED <<nameCall, varsTasks, varsMore>>

\* Line 439-451: CreateUser. What the service answers to an invitation for
\* an account it already has is not decided by this code: the call fails
\* and Reconcile returns the error, or it returns the account.
wCreate(w) ==
    LET job == workers[w].job
        me == workers[w]
        key == BackendKey(job.backend)
        newID == CreateUserID(job.backend, job.members[me.i])
        made == [me EXCEPT !.created = @ \cup {<<job.members[me.i], key>>}]
    IN /\ me.pc = "create"
       /\ busers' = IF job.backend.type = "rover" THEN busers
                    ELSE [busers EXCEPT ![key] = @ \cup {newID}]
       /\ \E fails \in {FALSE} \cup {job.backend.type # "rover" /\ newID \in busers[key]} :
            workers' = [workers EXCEPT ![w] =
                IF fails THEN [made EXCEPT !.pc = "done", !.err = TRUE]
                ELSE [made EXCEPT !.pc = "set", !.newID = newID]]
       /\ UNCHANGED <<varsExpand, gcr, cfg, directory, cache, teams, teamMembers, calls,
                      lastRun, deletedTeams, faultMet, recordedAtDeletion, userList,
                      lastSweep, sweeper, cacheMutex>>
       /\ UNCHANGED <<nameCall, varsTasks, varsMore>>

\* Line 453-459: Cache.Set of what Cache.Get returned plus the new id.
wSet(w) ==
    LET job == workers[w].job
        me == workers[w]
        key == BackendKey(job.backend)
        email == EmailOf[job.members[me.i]]
    IN /\ me.pc = "set"
       /\ cache' = CacheSet(cache, email, (key :> me.newID) @@ me.userDetailsMap)
       /\ workers' = [workers EXCEPT ![w] =
              nextUserFrom([me EXCEPT !.wroteStale = @ \/ me.stale, !.stale = FALSE],
                           job, me.i + 1)]
       /\ UNCHANGED <<varsExpand, gcr, cfg, directory, teams, teamMembers, busers, calls,
                      lastRun, deletedTeams, faultMet, recordedAtDeletion, userList,
                      lastSweep, sweeper, cacheMutex>>
       /\ UNCHANGED <<nameCall, varsTasks, varsMore>>

\* Lines 201-244: FetchTeamMembersByTeamID, processUsers, AddUserToTeam and
\* RemoveUserFromTeam; then Reconcile returns.
wSync(w) ==
    LET job == workers[w].job
        me == workers[w]
        key == BackendKey(job.backend)
    IN /\ me.pc = "sync"
       /\ \E r \in {Bind(processUsers(EnvNow, job.members, teamMembers[key][me.teamID],
                                      job.backend, me.ldap, {}), LAMBDA p :
                     IF p.err THEN [env |-> p.env, aborted |-> TRUE]
                     ELSE syncMembership([env |-> p.env, aborted |-> FALSE], p.env,
                                         job.backend, me.teamID, p.usersToAdd,
                                         p.usersToRemove, {}, {}))} :
            /\ teamMembers' = r.env.members
            /\ workers' = [workers EXCEPT ![w] = [me EXCEPT !.pc = "done",
                                                            !.err = r.aborted]]
       /\ UNCHANGED <<varsExpand, gcr, cfg, directory, cache, teams, busers, calls,
                      lastRun, deletedTeams, faultMet, recordedAtDeletion, userList,
                      lastSweep, sweeper, cacheMutex>>
       /\ UNCHANGED <<nameCall, varsTasks, varsMore>>

\* processUsers of the job, lines 202-217: on to the next user of the list,
\* or Run returns. late records that the loop went on to a user with the
\* context already cancelled; the loop itself never looks at the context.
nextKeyFrom(sw, from) ==
    IF from <= Len(sw.userKeys)
    THEN [sw EXCEPT !.pc = "check", !.i = from, !.userEmail = "", !.userData = EmptyMap,
                    !.late = @ \/ (ctxDone /\ from > 1)]
    ELSE [IdleSweeper EXCEPT !.runs = sw.runs + 1]

\* Run, lines 157-181, with getUserListFromCache: user_list is read under
\* the read lock, which is released before the loop over the users.
sStart ==
    /\ sweeper.pc = "idle"
    /\ sweeper.runs < MaxRuns
    /\ cacheMutex = "free"
    /\ sweeper' = IF userList.present
                  THEN nextKeyFrom([sweeper EXCEPT !.userKeys = userList.users], 1)
                  ELSE [sweeper EXCEPT !.runs = @ + 1]
    /\ UNCHANGED <<varsExpand, varsRec, workers, cacheMutex>>
    /\ UNCHANGED <<nameCall, varsTasks, varsMore>>

\* processUser, lines 234-251, with isUserActiveInLDAP.
sCheck ==
    /\ sweeper.pc = "check"
    /\ sweeper' = IF isUserActiveInLDAP(sweeper.userKeys[sweeper.i], {}) = "inactive"
                  THEN [sweeper EXCEPT !.pc = "data"]
                  ELSE nextKeyFrom(sweeper, sweeper.i + 1)
    /\ UNCHANGED <<varsExpand, varsRec, workers, cacheMutex>>
    /\ UNCHANGED <<nameCall, varsTasks, varsMore>>

\* offboardUser, line 272: getUserDataFromCache under the read lock.
sData ==
    /\ sweeper.pc = "data"
    /\ cacheMutex = "free"
    /\ \E firstSeen \in FirstSeenChoices :
         \E d \in {getUserDataFromCache(EnvNow, sweeper.userKeys[sweeper.i], {},
                                        firstSeen)} :
            sweeper' = IF d.err THEN nextKeyFrom(sweeper, sweeper.i + 1)
                       ELSE [sweeper EXCEPT !.pc = "backends", !.userEmail = d.email,
                                            !.userData = cache[d.email]]
    /\ UNCHANGED <<varsExpand, varsRec, workers, cacheMutex>>
    /\ UNCHANGED <<nameCall, varsTasks, varsMore>>

\* offboardUser, line 276: offboardUserFromAllBackends.
sBackends ==
    /\ sweeper.pc = "backends"
    /\ \E o \in {offboardUserFromAllBackends(EnvNow, cfg, sweeper.userData, {})} :
         /\ busers' = o.env.busers
         /\ sweeper' = IF o.err THEN nextKeyFrom(sweeper, sweeper.i + 1)
                       ELSE [sweeper EXCEPT !.pc = "lock"]
    /\ UNCHANGED <<varsExpand, gcr, cfg, directory, cache, teams, teamMembers, calls,
                   lastRun, deletedTeams, faultMet, recordedAtDeletion, userList,
                   lastSweep, workers, cacheMutex>>
    /\ UNCHANGED <<nameCall, varsTasks, varsMore>>

\* offboardUser, line 283: cacheMutex.Lock().
sLock ==
    /\ sweeper.pc = "lock"
    /\ cacheMutex = "free"
    /\ cacheMutex' = "write"
    /\ sweeper' = [sweeper EXCEPT !.pc = "delete"]
    /\ UNCHANGED <<varsExpand, varsRec, workers>>
    /\ UNCHANGED <<nameCall, varsTasks, varsMore>>

\* The worker got the entry under the key from Cache.Get and has not yet
\* written it back.
HoldsEntry(w, email) ==
    /\ workers[w].pc \in {"create", "set"}
    /\ EmailOf[workers[w].job.members[workers[w].i]] = email
    /\ workers[w].userDetailsMap # EmptyMap

\* offboardUser, line 288: Cache.Delete of the user's entry.
sDelete ==
    /\ sweeper.pc = "delete"
    /\ cache' = CacheDelete(cache, sweeper.userEmail)
    /\ sweeper' = [sweeper EXCEPT !.pc = "rewrite"]
    /\ workers' = [w \in WorkerIds |->
                      IF HoldsEntry(w, sweeper.userEmail)
                      THEN [workers[w] EXCEPT !.stale = TRUE]
                      ELSE workers[w]]
    /\ UNCHANGED <<varsExpand, gcr, cfg, directory, teams, teamMembers, busers, calls,
                   lastRun, deletedTeams, faultMet, recordedAtDeletion, userList,
                   lastSweep, cacheMutex>>
    /\ UNCHANGED <<nameCall, varsTasks, varsMore>>

\* offboardUser, lines 295-302: removeUserFromUserList, then the deferred
\* Unlock.
sRewrite ==
    /\ sweeper.pc = "rewrite"
    /\ \E r \in {removeUserFromUserList(EnvNow, userList,
                                         sweeper.userKeys[sweeper.i], {})} :
         userList' = r.list
    /\ cacheMutex' = "free"
    /\ sweeper' = nextKeyFrom(sweeper, sweeper.i + 1)
    /\ UNCHANGED <<varsExpand, gcr, cfg, directory, cache, teams, teamMembers, busers,
                   calls, lastRun, deletedTeams, faultMet, recordedAtDeletion, lastSweep,
                   workers>>
    /\ UNCHANGED <<nameCall, varsTasks, varsMore>>

\* The users are registered with the job.
RegisterUsers ==
    /\ ~userList.present
    /\ userList' = [present |-> TRUE, users |-> <<"x", "y">>]
    /\ UNCHANGED <<varsExpand, gcr, cfg, directory, cache, teams, teamMembers, busers,
                   calls, lastRun, deletedTeams, faultMet, recordedAtDeletion, lastSweep,
                   varsAux>>

\* A user leaves the directory.
UserLeaves ==
    /\ \E u \in directory : directory' = directory \ {u}
    /\ UNCHANGED <<varsExpand, gcr, cfg, cache, teams, teamMembers, busers, calls,
                   lastRun, deletedTeams, faultMet, recordedAtDeletion, userList,
                   lastSweep, varsAux>>

NextConcurrent ==
    \/ \E w \in WorkerIds : wStart(w)
    \/ \E w \in WorkerIds : wTeam(w)
    \/ \E w \in WorkerIds : wGet(w)
    \/ \E w \in WorkerIds : wCreate(w)
    \/ \E w \in WorkerIds : wSet(w)
    \/ \E w \in WorkerIds : wSync(w)
    \/ sStart
    \/ sCheck
    \/ sData
    \/ sBackends
    \/ sLock
    \/ sDelete
    \/ sRewrite
    \/ RegisterUsers
    \/ UserLeaves

InitConcurrent == InitSweep /\ gcr.backends = <<BFt, BRv>>

SpecConcurrent == InitConcurrent /\ [][NextConcurrent]_vars

(***************************************************************************)
(* SpecTransform: the name transform under many rule lists, called on its   *)
(* own and from Reconcile.                                                   *)
(***************************************************************************)
\* Rules in a list.
MaxRules == 2

BadEntry == [input |-> ReBad, output |-> DefaultEntry.output]

SplitEntry ==
    [input |-> ReSplit, output |-> <<"$", "2", "_", "$", "1", ReplaceToken>>]

PrefixEntry == [input |-> RePrefix(<<"c">>), output |-> <<"f", "t", "_", "c">>]

\* cfg.Pattern with or without rules under "default" (any list of up to
\* MaxRules sample rules) and under "fivetran" (one of three lists); rover
\* has none of its own.
TransformConfigs ==
    LET SampleEntries ==
            {DefaultEntry, FivetranEntry, NoMatchEntry, BadEntry, SplitEntry, PrefixEntry}
        RuleLists == UNION {[1..n -> SampleEntries] : n \in 0..MaxRules}
        FivetranLists ==
            {<<NoMatchEntry>>, <<NoMatchEntry, FivetranEntry>>,
             <<BadEntry, FivetranEntry>>}
        NoRules == [k \in {} |-> <<>>]
    IN {[pattern |-> d @@ f, backendMap |-> AllEnabled] :
           d \in {NoRules} \cup {("default" :> l) : l \in RuleLists},
           f \in {NoRules} \cup {("fivetran" :> l) : l \in FivetranLists}}

\* The names the transform is called with.
InputNames == {"a", "c", "a-c", "c-a-c"}

InitTransform ==
    /\ store = SpecStore
    /\ expRoot = ""
    /\ fetched = NoFetch
    /\ reconciledUsers = <<>>
    /\ \E c \in TransformConfigs : InitRecWith(ReconciledName, <<BFt, BRv>>, c)

\* A call of GetTransformedGroupName.
Transform(typeName, inputStr) ==
    /\ \E r \in {transformGroupName(cfg, typeName, inputStr)} :
         nameCall' = [typeName |-> typeName, inputStr |-> inputStr, err |-> r.err,
                      chars |-> r.chars]
    /\ calls' = <<>>
    /\ lastRun' = [NoRun EXCEPT !.op = "Transform"]
    /\ lastSweep' = NoSweep
    /\ UNCHANGED <<varsExpand, gcr, cfg, directory, cache, teams, teamMembers, busers,
                   deletedTeams, faultMet, recordedAtDeletion, userList, varsConc,
                   varsTasks, varsMore>>

NextTransform ==
    \/ \E typeName \in {"fivetran", "rover"} : \E inputStr \in InputNames :
           Transform(typeName, inputStr)
    \/ ReconcileHealthy

SpecTransform == InitTransform /\ [][NextTransform]_vars

(***************************************************************************)
(* SpecTasks: PeriodicTaskManager.RunAll and the goroutine of each task.    *)
(* A unit is at "new" (not started), "start" (runTask entered), "once"      *)
(* (the body of a run-once task runs), "select" (blocked in the select),    *)
(* "running" (the body runs) or "exited". tick says that the ticker's       *)
(* channel, of capacity one, holds a tick; runs counts the starts of the    *)
(* body up to MaxBodyRuns; lateStart says that a body was started when the  *)
(* context was already cancelled.                                           *)
(***************************************************************************)
MaxBodyRuns == 2

syncOnceInterval == 0

\* task.GetInterval(), in ticks of an arbitrary unit.
GetInterval == ("once" :> 0) @@ ("task1" :> 1) @@ ("task2" :> 2)

\* RunAll, lines 25-28: one goroutine per task.
RunAll ==
    /\ \A t \in TaskIds : units[t].pc = "new"
    /\ units' = [t \in TaskIds |-> [units[t] EXCEPT !.pc = "start"]]
    /\ UNCHANGED <<varsExpand, varsRec, varsConc, nameCall, ctxDone, varsMore>>

\* run(), lines 35-40: the body starts.
startBody(u) ==
    [u EXCEPT !.runs = IF @ < MaxBodyRuns THEN @ + 1 ELSE @,
              !.lateStart = @ \/ ctxDone]

\* runTask, lines 31-49: a run-once task runs its body; for any other one
\* the ticker is made.
runTaskStart(t) ==
    /\ units[t].pc = "start"
    /\ units' = [units EXCEPT ![t] =
           IF GetInterval[t] = syncOnceInterval
           THEN [startBody(@) EXCEPT !.pc = "once"]
           ELSE [@ EXCEPT !.pc = "select"]]
    /\ UNCHANGED <<varsExpand, varsRec, varsConc, nameCall, ctxDone, varsMore>>

\* Lines 43-46: the body of the run-once task is over, runTask returns.
runOnceReturn(t) ==
    /\ units[t].pc = "once"
    /\ units' = [units EXCEPT ![t] = [@ EXCEPT !.pc = "exited"]]
    /\ UNCHANGED <<varsExpand, varsRec, varsConc, nameCall, ctxDone, varsMore>>

\* The ticker of line 48 fires; a tick that finds the channel full is
\* dropped.
Tick(t) ==
    /\ units[t].pc \in {"select", "running"}
    /\ ~units[t].tick
    /\ units' = [units EXCEPT ![t] = [@ EXCEPT !.tick = TRUE]]
    /\ UNCHANGED <<varsExpand, varsRec, varsConc, nameCall, ctxDone, varsMore>>

\* Lines 53-55: the select takes <-ctx.Done(); the deferred ticker.Stop().
selectDone(t) ==
    /\ units[t].pc = "select"
    /\ ctxDone
    /\ units' = [units EXCEPT ![t] = [@ EXCEPT !.pc = "exited", !.tick = FALSE]]
    /\ UNCHANGED <<varsExpand, varsRec, varsConc, nameCall, ctxDone, varsMore>>

\* Lines 56-57: the select takes <-ticker.C and the body starts. When both
\* channels are ready the select takes either.
selectTick(t) ==
    /\ units[t].pc = "select"
    /\ units[t].tick
    /\ units' = [units EXCEPT ![t] = [startBody(@) EXCEPT !.pc = "running",
                                                         !.tick = FALSE]]
    /\ UNCHANGED <<varsExpand, varsRec, varsConc, nameCall, ctxDone, varsMore>>

\* task.Run returns and the loop is back at the select.
bodyReturns(t) ==
    /\ units[t].pc = "running"
    /\ units' = [units EXCEPT ![t] = [@ EXCEPT !.pc = "select"]]
    /\ UNCHANGED <<varsExpand, varsRec, varsConc, nameCall, ctxDone, varsMore>>

\* The context passed to RunAll is cancelled.
Cancel ==
    /\ ~ctxDone
    /\ ctxDone' = TRUE
    /\ UNCHANGED <<varsExpand, varsRec, varsConc, nameCall, units, varsMore>>

NextTasks ==
    \/ RunAll
    \/ \E t \in TaskIds : runTaskStart(t)
    \/ \E t \in TaskIds : runOnceReturn(t)
    \/ \E t \in TaskIds : Tick(t)
    \/ \E t \in TaskIds : selectDone(t)
    \/ \E t \in TaskIds : selectTick(t)
    \/ \E t \in TaskIds : bodyReturns(t)
    \/ Cancel

SpecTasks == InitConcurrent /\ [][NextTasks]_vars

\* The scheduler runs every goroutine that can take a step, a body returns,
\* the ticker keeps firing, and a select that is ready for <-ctx.Done()
\* again and again takes it in the end (the choice among ready cases is
\* uniformly random).
SpecTasksFair ==
    /\ SpecTasks
    /\ WF_vars(RunAll)
    /\ \A t \in TaskIds :
          /\ WF_vars(runTaskStart(t))
          /\ WF_vars(runOnceReturn(t))
          /\ WF_vars(bodyReturns(t))
          /\ WF_vars(Tick(t))
          /\ WF_vars(selectTick(t) \/ selectDone(t))
          /\ SF_vars(selectDone(t))

(***************************************************************************)
(* SpecSweepCancel: the job and the Reconciles of SpecConcurrent, with the  *)
(* context of the job cancelled at any moment.                              *)
(***************************************************************************)
NextSweepCancel ==
    \/ NextConcurrent
    \/ Cancel

SpecSweepCancel == InitConcurrent /\ [][NextSweepCancel]_vars

(***************************************************************************)
(* SpecPreserve: offboardUserFromAllBackends on its own, for any set of     *)
(* backend clients and any cached mapping of the user.                      *)
(***************************************************************************)
JobKeys == DOMAIN JobKeyChars \ {"ft2_fivetran"}

InitPreserve ==
    /\ store = SpecStore
    /\ expRoot = ""
    /\ fetched = NoFetch
    /\ reconciledUsers = <<>>
    /\ \E K \in SUBSET JobKeys :
          InitRecWith(ReconciledName, <<BFt, BRv>>,
                      [pattern |-> CfgDefault.pattern,
                       backendMap |-> [k \in K |-> [enabled |-> TRUE]]])

\* offboardUserFromAllBackends for a user whose cache entry is userData;
\* every backend has the account.
Offboard(userData, faults) ==
    /\ \E o \in {offboardUserFromAllBackends(
                     Env(cache, teams, teamMembers,
                         [k \in JobKeys |-> {"y", "uid_y"}], <<>>, deletedTeams),
                     cfg, userData, faults)} :
         /\ calls' = o.env.calls
         /\ lastRun' = [NoRun EXCEPT !.op = "Offboard",
                                     !.result = IF o.err THEN "error" ELSE "ok",
                                     !.backendErrors = o.errors]
    /\ sweeper' = [IdleSweeper EXCEPT !.userData = userData]
    /\ lastSweep' = NoSweep
    /\ UNCHANGED <<varsExpand, gcr, cfg, directory, cache, teams, teamMembers, busers,
                   deletedTeams, faultMet, recordedAtDeletion, userList, workers,
                   cacheMutex, nameCall, varsTasks, varsMore>>

NextPreserve ==
    \E D \in SUBSET backendClients(cfg) :
        \E userData \in [D -> {"uid_y"}] :
            \E F \in SUBSET {"ft_fivetran", "rover_x_ft"} :
                Offboard(userData, {Fault(k, "deleteUser") : k \in F})

SpecPreserve == InitPreserve /\ [][NextPreserve]_vars

(***************************************************************************)
(* SpecLdap: GetUserLDAPData over a connection that can drop. lookup holds  *)
(* what the last call met: whether the connection was closing, whether the  *)
(* redial went through, the number of entries the search returned (-1 when  *)
(* no search returned), the error and whether a result came with it.        *)
(***************************************************************************)
\* getConn that hands out the connection it holds when the redial fails.
getConnKeepOld(closing, dialOk) ==
    IF closing
    THEN [conn |-> IF dialOk THEN "new" ELSE "held", closing |-> ~dialOk,
          dialed |-> TRUE]
    ELSE [conn |-> "held", closing |-> FALSE, dialed |-> FALSE]

\* getConn, part_009 lines 56-68, for a client that holds a connection: a
\* closing one is redialled; a redial that fails gives nil and leaves l.conn
\* as it is.
getConn(closing, dialOk) ==
    IF closing
    THEN [conn |-> IF dialOk THEN "new" ELSE "nil", closing |-> ~dialOk,
          dialed |-> TRUE]
    ELSE [conn |-> "held", closing |-> FALSE, dialed |-> FALSE]

\* GetUserLDAPData, client.go lines 83-121.
GetUserLDAPData(userID, dialOk, searchFails) ==
    /\ \E c \in {getConn(connClosing, dialOk)} :
         LET dial == IF c.dialed THEN <<Call("DialURL", "ldap", <<>>, dialOk)>>
                     ELSE <<>>
             search == IF c.conn = "nil" THEN <<>>
                       ELSE <<Call("Search", "ldap", <<userID>>, ~searchFails)>>
             entries == IF c.conn = "nil" \/ searchFails THEN -1
                        ELSE IF userID \in directory THEN 1 ELSE 0
         IN /\ connClosing' = c.closing
            /\ calls' = dial \o search
            /\ lookup' = [userID |-> userID, wasClosing |-> connClosing,
                          dialOk |-> c.dialed /\ dialOk, entries |-> entries,
                          err |-> IF c.conn = "nil" THEN "LDAP connection is nil"
                                  ELSE IF searchFails THEN "search failed"
                                  ELSE IF entries = 0 THEN "ErrNoUserFound"
                                  ELSE "",
                          data |-> entries = 1]
    /\ lastRun' = [NoRun EXCEPT !.op = "Lookup"]
    /\ lastSweep' = NoSweep
    /\ UNCHANGED <<varsLate, varsExpand, gcr, cfg, directory, cache, teams,
                   teamMembers, busers,
                   deletedTeams, faultMet, recordedAtDeletion, userList, varsConc,
                   nameCall, varsTasks, gate, varsImc>>

\* The server or the network drops the connection.
ConnCloses ==
    /\ ~connClosing
    /\ connClosing' = TRUE
    /\ UNCHANGED <<varsLate, varsExpand, varsRec, varsConc, nameCall,
                   varsTasks, gate, lookup,
                   varsImc>>

NextLdap ==
    \/ \E userID \in Users, dialOk \in BOOLEAN, searchFails \in BOOLEAN :
           GetUserLDAPData(userID, dialOk, searchFails)
    \/ ConnCloses
    \/ LeaveOrJoin

SpecLdap == InitConcurrent /\ [][NextLdap]_vars

(***************************************************************************)
(* SpecImc: the in-memory cache (pkg/cache/inmemory) over go-cache. An item *)
(* is [val, exp]; exp = 0 stands for no expiration, as in go-cache. Times   *)
(* and durations are in seconds. imcHist keeps, for every key, the last Set *)
(* or Delete: what it was, its value, when it was made and the ttl given.   *)
(***************************************************************************)
MaxTime == 2

ImcKeyChars ==
    ("u:1" :> <<"u", ":", "1">>) @@ ("o:1" :> <<"o", ":", "1">>)

ImcPatternChars ==
    ("u:*" :> <<"u", ":", "*">>) @@ ("*" :> <<"*">>) @@ ("u:1" :> <<"u", ":", "1">>)

\* filepath.Match for patterns of literal characters and "*", which matches
\* any run of characters other than the separator.
RECURSIVE Match(_, _)
Match(pattern, name) ==
    IF pattern = <<>> THEN name = <<>>
    ELSE IF Head(pattern) = "*"
    THEN \E n \in 0..Len(name) :
            /\ \A i \in 1..n : name[i] # "/"
            /\ Match(Tail(pattern), SubSeq(name, n + 1, Len(name)))
    ELSE /\ name # <<>>
         /\ Head(name) = Head(pattern)
         /\ Match(Tail(pattern), Tail(name))

\* go-cache: an item with an expiration is gone once the time is past it.
expired(item, now) == item.exp > 0 /\ now > item.exp

\* go-cache Get that hands out an item whatever its expiration.
gcGetStale(c, key) ==
    IF key \in DOMAIN c.items
    THEN [found |-> TRUE, val |-> c.items[key].val]
    ELSE [found |-> FALSE, val |-> ""]

\* go-cache Get.
gcGet(c, key) ==
    IF key \in DOMAIN c.items /\ ~expired(c.items[key], c.now)
    THEN [found |-> TRUE, val |-> c.items[key].val]
    ELSE [found |-> FALSE, val |-> ""]

\* go-cache Set: a duration of 0 stands for the default expiration, and a
\* duration that is not positive gives an item that does not expire.
gcSet(c, key, value, ttl) ==
    LET d == IF ttl = 0 THEN c.defaultExpiration ELSE ttl
        e == IF d > 0 THEN c.now + d ELSE 0
    IN [c EXCEPT !.items = (key :> [val |-> value, exp |-> e]) @@ @]

\* ScanKeys, lines 88-103: the keys of Items(), the items that have not
\* expired, that the pattern matches.
ScanKeys(c, pattern) ==
    {k \in DOMAIN c.items :
        /\ ~expired(c.items[k], c.now)
        /\ Match(ImcPatternChars[pattern], ImcKeyChars[k])}

\* NewCache, lines 24-39, with the default expiration of the configuration.
NewCache(defaultExpiration) ==
    /\ imcLast.op = "none"
    /\ imc' = [imc EXCEPT !.items = <<>>, !.defaultExpiration = defaultExpiration]
    /\ imcHist' = <<>>
    /\ UNCHANGED <<varsLate, varsExpand, varsRec, varsConc, nameCall,
                   varsTasks, gate, varsLdap,
                   imcLast>>

\* Set, lines 42-50.
ImcSet(key, value, ttl) ==
    /\ imc' = gcSet(imc, key, value, ttl)
    /\ imcHist' = (key :> [kind |-> "set", val |-> value, at |-> imc.now,
                           ttl |-> ttl]) @@ imcHist
    /\ imcLast' = [NoImcCall EXCEPT !.op = "Set", !.key = key, !.at = imc.now]
    /\ UNCHANGED <<varsLate, varsExpand, varsRec, varsConc, nameCall,
                   varsTasks, gate, varsLdap>>

\* Get, lines 53-59.
ImcGet(key) ==
    /\ \E r \in {gcGet(imc, key)} :
         imcLast' = [NoImcCall EXCEPT !.op = "Get", !.key = key, !.at = imc.now,
                                      !.val = r.val,
                                      !.err = IF r.found THEN "" ELSE "key not found"]
    /\ UNCHANGED <<varsLate, varsExpand, varsRec, varsConc, nameCall,
                   varsTasks, gate, varsLdap,
                   imc, imcHist>>

\* Delete, lines 79-85: the item is deleted when Get finds it.
ImcDelete(key) ==
    /\ imc' = IF gcGet(imc, key).found
              THEN [imc EXCEPT !.items = [k \in DOMAIN @ \ {key} |-> @[k]]]
              ELSE imc
    /\ imcHist' = (key :> [kind |-> "delete", val |-> "", at |-> imc.now,
                           ttl |-> 0]) @@ imcHist
    /\ imcLast' = [NoImcCall EXCEPT !.op = "Delete", !.key = key, !.at = imc.now]
    /\ UNCHANGED <<varsLate, varsExpand, varsRec, varsConc, nameCall,
                   varsTasks, gate, varsLdap>>

\* GetByPattern, lines 62-76.
ImcGetByPattern(pattern) ==
    /\ \E keys \in {ScanKeys(imc, pattern)} :
         imcLast' = [NoImcCall EXCEPT
                        !.op = "GetByPattern", !.key = pattern, !.at = imc.now,
                        !.values = [k \in {x \in keys : gcGet(imc, x).found} |->
                                       gcGet(imc, k).val]]
    /\ UNCHANGED <<varsLate, varsExpand, varsRec, varsConc, nameCall,
                   varsTasks, gate, varsLdap,
                   imc, imcHist>>

\* A second passes.
ImcTick ==
    /\ imc.now < MaxTime
    /\ imc' = [imc EXCEPT !.now = @ + 1]
    /\ UNCHANGED <<varsLate, varsExpand, varsRec, varsConc, nameCall,
                   varsTasks, gate, varsLdap,
                   imcHist, imcLast>>

NextImc ==
    \/ \E d \in {-1, 1} : NewCache(d)
    \/ \E key \in DOMAIN ImcKeyChars, value \in {"v1", "v2"}, ttl \in {-1, 0, 1} :
           ImcSet(key, value, ttl)
    \/ \E key \in DOMAIN ImcKeyChars : ImcGet(key)
    \/ \E key \in DOMAIN ImcKeyChars : ImcDelete(key)
    \/ \E pattern \in DOMAIN ImcPatternChars : ImcGetByPattern(pattern)
    \/ ImcTick

SpecImc == InitConcurrent /\ [][NextImc]_vars

(***************************************************************************)
(* SpecStart: PeriodicTasksReconciler.Start, its cache health probes and    *)
(* the tasks it starts. gate.pc is "new", "probing" (in the loop of         *)
(* waitForCacheHealth), "healthy" (the loop returned nil) or "returned";    *)
(* i counts the probe attempts made, setOk and getOk say how the Set and    *)
(* the Get of the last attempt ended, err is what Start returned.           *)
(***************************************************************************)
maxRetries == 5

\* A probe that takes the Set alone for the health of the cache.
probeSetOnly(g, setOk, getOk) ==
    IF setOk
    THEN [g EXCEPT !.pc = "healthy", !.i = @ + 1, !.setOk = TRUE, !.getOk = getOk]
    ELSE [g EXCEPT !.i = @ + 1, !.setOk = FALSE, !.getOk = FALSE,
                   !.pc = IF g.i = maxRetries - 1 THEN "returned" ELSE "probing",
                   !.err = IF g.i = maxRetries - 1 THEN "set failed" ELSE ""]

\* Lines 113-141: one attempt, given how the cache answers the Set and the
\* Get. The Get is made only after a Set that succeeded; the last attempt
\* that fails returns the error, any other one sleeps and goes on.
probe(g, setOk, getOk) ==
    IF setOk /\ getOk
    THEN [g EXCEPT !.pc = "healthy", !.i = @ + 1, !.setOk = TRUE, !.getOk = TRUE]
    ELSE [g EXCEPT !.i = @ + 1, !.setOk = setOk, !.getOk = FALSE,
                   !.pc = IF g.i = maxRetries - 1 THEN "returned" ELSE "probing",
                   !.err = IF g.i = maxRetries - 1
                           THEN (IF setOk THEN "get failed" ELSE "set failed")
                           ELSE ""]

\* Start, lines 54-67: the manager calls Start, which enters the loop.
StartBegin ==
    /\ gate.pc = "new"
    /\ gate' = [gate EXCEPT !.pc = "probing"]
    /\ UNCHANGED <<varsLate, varsExpand, varsRec, varsConc, nameCall,
                   varsTasks, varsLdap,
                   varsImc>>

\* waitForCacheHealth, lines 106-142: one turn of the loop. A context that
\* is cancelled at the top of the turn ends Start with ctx.Err().
Probe(setOk, getOk) ==
    /\ gate.pc = "probing"
    /\ gate' = IF ctxDone
               THEN [gate EXCEPT !.pc = "returned", !.err = "context canceled"]
               ELSE probe(gate, setOk, getOk)
    /\ UNCHANGED <<varsLate, varsExpand, varsRec, varsConc, nameCall,
                   varsTasks, varsLdap,
                   varsImc>>

\* Start, lines 72-80: the probes passed, RunAll starts every task and
\* Start returns nil.
StartRunAll ==
    /\ gate.pc = "healthy"
    /\ gate' = [gate EXCEPT !.pc = "returned"]
    /\ units' = [t \in TaskIds |-> [units[t] EXCEPT !.pc = "start"]]
    /\ UNCHANGED <<varsLate, varsExpand, varsRec, varsConc, nameCall,
                   ctxDone, varsLdap, varsImc>>

NextStart ==
    \/ StartBegin
    \/ \E setOk \in BOOLEAN, getOk \in BOOLEAN : Probe(setOk, getOk)
    \/ StartRunAll
    \/ \E t \in TaskIds : runTaskStart(t)
    \/ \E t \in TaskIds : runOnceReturn(t)
    \/ \E t \in TaskIds : Tick(t)
    \/ \E t \in TaskIds : selectDone(t)
    \/ \E t \in TaskIds : selectTick(t)
    \/ \E t \in TaskIds : bodyReturns(t)
    \/ Cancel

SpecStart == InitConcurrent /\ [][NextStart]_vars

(***************************************************************************)
(* Observations of the last Reconcile                                       *)
(***************************************************************************)
\* The last operation was a Reconcile of the live Group that got as far as
\* the loop over spec.backends.
ReachedBackends ==
    lastRun.op = "Reconcile" /\ lastRun.path = "normal" /\ calls # <<>>

\* The calls of the last operation with the given name made for backend key.
CallsOf(op, key) == {i \in DOMAIN calls : calls[i].op = op /\ calls[i].b = key}

\* The loop body started for the backend (its first statement is clients.New).
Processed(b) == CallsOf("clients.New", BackendKey(b)) # {}

(***************************************************************************)
(* C1. Backend isolation: a Reconcile that enters the loop over the         *)
(* declared backends processes every one of them, whatever step failed for  *)
(* another backend.                                                         *)
(***************************************************************************)
C1_BackendIsolation ==
    ReachedBackends => \A i \in DOMAIN gcr.backends : Processed(gcr.backends[i])

\* AddUserToTeam failed for the first declared backend and the second one
\* was never looked at.
C1_Witness ==
    /\ ReachedBackends
    /\ \E i \in DOMAIN calls :
           /\ calls[i].op = "AddUserToTeam"
           /\ calls[i].b = BackendKey(gcr.backends[1])
           /\ ~calls[i].ok
    /\ ~Processed(gcr.backends[2])

(***************************************************************************)
(* Observations of the deletion path                                        *)
(***************************************************************************)
\* Reconcile has removed the finalizer of the Group under deletion.
FinalizerRemoved == gcr.deleting /\ ~gcr.finalizer /\ lastRun.op = "Reconcile"

\* The ids the cache records for the declared backends.
RecordedNow ==
    {<<BackendKey(b), RecordedTeam(cache, cfg, gcr, b)>> :
         b \in {d \in Range(gcr.backends) : RecordedTeam(cache, cfg, gcr, d) # ""}}

(***************************************************************************)
(* C2. Finalizer safety: when Reconcile has removed the finalizer,          *)
(* DeleteTeamByID has succeeded for every team id the cache recorded for a  *)
(* declared backend when deletion was requested, and the cache records no   *)
(* team id for a declared backend any more.                                 *)
(***************************************************************************)
C2_FinalizerSafety ==
    FinalizerRemoved =>
        /\ recordedAtDeletion \subseteq deletedTeams
        /\ RecordedNow = {}

\* The finalizer is gone, the cache read of the deletion path failed, and
\* the cache still records a team that was never deleted.
C2_Witness ==
    /\ FinalizerRemoved
    /\ \E i \in DOMAIN calls : calls[i].op = "CacheGet" /\ ~calls[i].ok
    /\ RecordedNow # {}
    /\ ~(RecordedNow \subseteq deletedTeams)

(***************************************************************************)
(* C3. Deletion retry. (1) When a step of the deletion path fails (name     *)
(* transform, adapter resolution, DeleteTeamByID, cache delete or cache     *)
(* rewrite), Reconcile returns an error and the finalizer stays. (2) A      *)
(* Reconcile does not call DeleteTeamByID for a backend whose team was      *)
(* deleted and for which the cache records no id any more. (3) When the     *)
(* configuration resolves every declared backend, Reconcile calls in which  *)
(* nothing fails keep coming, so the finalizer is eventually removed.       *)
(***************************************************************************)
\* Name transform or adapter resolution fails for a declared backend.
ConfigFails ==
    \E b \in Range(gcr.backends) :
        \/ GetTransformedGroupName(cfg, b.type, gcr.groupName).err
        \/ clientsNew(b, cfg.backendMap) # "ok"

DeletionStepFailed ==
    /\ lastRun.op = "Reconcile"
    /\ lastRun.path = "deletion"
    /\ \/ ConfigFails
       \/ \E i \in DOMAIN calls :
              /\ calls[i].op \in {"DeleteTeamByID", "CacheDelete", "CacheSet"}
              /\ ~calls[i].ok

\* Backend b's team was deleted and the cache records no id for b.
DeletedAndForgotten(b) ==
    /\ \E id \in TeamIds : <<BackendKey(b), id>> \in deletedTeams
    /\ RecordedTeam(cache, cfg, gcr, b) = ""

NoRepeatedDelete ==
    \A b \in Range(gcr.backends) :
        (gcr.deleting /\ DeletedAndForgotten(b) /\ lastRun'.op = "Reconcile")
            => \A i \in DOMAIN calls' :
                   ~(calls'[i].op = "DeleteTeamByID" /\ calls'[i].b = BackendKey(b))

C3_DeletionRetry ==
    /\ [](DeletionStepFailed => (lastRun.result = "error" /\ gcr.finalizer /\ gcr.exists))
    /\ [][NoRepeatedDelete]_vars
    /\ (gcr.deleting /\ gcr.finalizer /\ ~ConfigFails) ~> ~gcr.finalizer

\* One backend's team is deleted and forgotten, a later step failed, and the
\* finalizer is still there for the retry.
C3_Witness ==
    /\ DeletionStepFailed
    /\ ~ConfigFails
    /\ \E b \in Range(gcr.backends) : DeletedAndForgotten(b)
    /\ lastRun.result = "error"
    /\ gcr.finalizer

(***************************************************************************)
(* Observations of the last Run of the offboarding job                      *)
(***************************************************************************)
\* The last operation was a Run that got user_list.
SweepDone == lastRun.op = "Run" /\ lastSweep.read

\* The cache entry of user u (keyed by the user's email) when the Run began.
EntryAtSweep(u) ==
    IF EmailOf[u] \in DOMAIN lastSweep.cache THEN lastSweep.cache[EmailOf[u]]
    ELSE EmptyMap

\* The Run called DeleteUser for the given id on backend k.
CalledDeleteUser(k, id) ==
    \E i \in DOMAIN calls :
        calls[i].op = "DeleteUser" /\ calls[i].b = k /\ calls[i].args = <<id>>

\* Every call of the Run succeeded.
AllCallsOk == \A i \in DOMAIN calls : calls[i].ok

(***************************************************************************)
(* C4. Offboarding correctness: after a Run, every user of user_list that   *)
(* the directory reported not found has no cache entry, is not in           *)
(* user_list, and DeleteUser was called on every configured backend that is *)
(* not preserved and whose key the user's cache entry held.                 *)
(***************************************************************************)
C4_OffboardingCorrectness ==
    SweepDone =>
        \A u \in lastSweep.inactive :
            /\ EmailOf[u] \notin DOMAIN cache
            /\ u \notin Range(userList.users)
            /\ \A k \in backendClients(cfg) :
                   (BackendTypeOfKey[k] \notin skippedBackendTypes
                    /\ k \in DOMAIN EntryAtSweep(u))
                   => CalledDeleteUser(k, EntryAtSweep(u)[k])

\* A Run in which nothing failed counted x as offboarded, yet x's cache entry
\* is still there and its account was not deleted: the entry taken was y's.
C4_Witness ==
    /\ SweepDone
    /\ AllCallsOk
    /\ lastRun.result = "ok"
    /\ "x" \in lastSweep.inactive \cap lastSweep.offboarded
    /\ EmailOf["x"] \in DOMAIN cache
    /\ "ft_fivetran" \in DOMAIN EntryAtSweep("x")
    /\ ~CalledDeleteUser("ft_fivetran", EntryAtSweep("x")["ft_fivetran"])

(***************************************************************************)
(* C5. Offboarding preservation: a user of user_list whose directory lookup *)
(* failed with an error other than not found has, after the Run, the cache  *)
(* entry it had before, is still in user_list, and no DeleteUser was called *)
(* for any of its ids.                                                      *)
(***************************************************************************)
C5_OffboardingPreservation ==
    SweepDone =>
        \A u \in lastSweep.lookupFailed :
            /\ \A k \in DOMAIN EntryAtSweep(u) : ~CalledDeleteUser(k, EntryAtSweep(u)[k])
            /\ (EmailOf[u] \in DOMAIN cache) = (EmailOf[u] \in DOMAIN lastSweep.cache)
            /\ EmailOf[u] \in DOMAIN cache => cache[EmailOf[u]] = EntryAtSweep(u)
            /\ u \in Range(userList.users)

\* The lookup of y failed, x was not found, and the Run deleted y's account
\* and y's cache entry while offboarding x.
C5_Witness ==
    /\ SweepDone
    /\ "y" \in lastSweep.lookupFailed
    /\ "x" \in lastSweep.offboarded
    /\ EmailOf["y"] \in DOMAIN lastSweep.cache
    /\ EmailOf["y"] \notin DOMAIN cache
    /\ CalledDeleteUser("ft_fivetran", EntryAtSweep("y")["ft_fivetran"])

(***************************************************************************)
(* The declared state of a backend and the state it is in                   *)
(***************************************************************************)
\* The expansion of the reconciled Group succeeds.
ExpansionOk == fetchUniqueGroupMembers(store, gcr.groupName, {}, 1).err = "none"

\* The expanded member set.
ExpandedUsers ==
    IF ExpansionOk
    THEN Range(deduplicateMembers(fetchUniqueGroupMembers(store, gcr.groupName, {}, 1).members))
    ELSE {}

\* The cache holds user u's id for the backend with the given key.
Cached(u, key) == EmailOf[u] \in DOMAIN cache /\ key \in DOMAIN cache[EmailOf[u]]

\* The expanded member set translated through the identity cache: the
\* directory gives a user's email, the cache entry of that email the id.
Translated(b) ==
    {cache[EmailOf[u]][BackendKey(b)] :
         u \in {v \in ExpandedUsers \cap directory : Cached(v, BackendKey(b))}}

\* The cache records a team for backend b, whose members are exactly the
\* translated expanded set.
MembershipMatches(b) ==
    /\ RecordedTeam(cache, cfg, gcr, b) # ""
    /\ teamMembers[BackendKey(b)][RecordedTeam(cache, cfg, gcr, b)] = Translated(b)

\* The state of backend b matches the declared state.
AlreadyMatches(b) ==
    /\ ExpansionOk
    /\ \A u \in ExpandedUsers : Cached(u, BackendKey(b))
    /\ MembershipMatches(b)

MutatingOps ==
    {"CreateTeam", "CreateUser", "AddUserToTeam", "RemoveUserFromTeam", "CacheSet",
     "CacheDelete"}

\* The last operation made no mutating call for backend b.
NoMutation(b) ==
    \A i \in DOMAIN calls : calls[i].b = BackendKey(b) => calls[i].op \notin MutatingOps

\* In the last operation every directory lookup and every cache read
\* succeeded.
ReadsOk ==
    /\ lastRun.ldapFailed = {}
    /\ \A i \in DOMAIN calls : calls[i].op = "CacheGet" => calls[i].ok

\* In the last operation nothing failed (clients.New fails by configuration
\* only).
NothingFailed ==
    /\ lastRun.k8sFailed = ""
    /\ lastRun.ldapFailed = {}
    /\ \A i \in DOMAIN calls : calls[i].ok \/ calls[i].op = "clients.New"

\* This step is a Reconcile of the live Group.
LiveReconcileStep == gcr.exists /\ ~gcr.deleting /\ lastRun'.op = "Reconcile"

\* The configuration lets Reconcile get to backend b's team.
ConfigOk(b) ==
    /\ ExpansionOk
    /\ Range(store[ReconciledName].groups) \subseteq DOMAIN store
    /\ clientsNew(b, cfg.backendMap) = "ok"
    /\ ~GetTransformedGroupName(cfg, b.type, gcr.groupName).err

C10_Convergence ==
    [][\A b \in Range(gcr.backends) :
           (LiveReconcileStep /\ ConfigOk(b) /\ NothingFailed')
           => (MembershipMatches(b) /\ \A u \in ExpandedUsers \cap directory :
                                          Cached(u, BackendKey(b)))']_vars

\* A Reconcile in which nothing failed has removed the member that left the
\* directory: the team has a member, and the cache still holds the id of an
\* expanded user that is no member.
C10_Witness ==
    /\ ReachedBackends
    /\ NothingFailed
    /\ MembershipMatches(gcr.backends[1])
    /\ Translated(gcr.backends[1]) # {}
    /\ CallsOf("RemoveUserFromTeam", BackendKey(gcr.backends[1])) # {}
    /\ \E u \in ExpandedUsers \ directory : Cached(u, BackendKey(gcr.backends[1]))


\* The last operation was a Reconcile of the live Group that passed the
\* backend loop with every declared backend processed and none in error.
EveryBackendCompleted ==
    /\ lastRun.op = "Reconcile"
    /\ lastRun.path = "normal"
    /\ lastRun.finalized
    /\ ~lastRun.aborted
    /\ lastRun.backendErrors = {}
    /\ \A i \in DOMAIN gcr.backends : Processed(gcr.backends[i])

(***************************************************************************)
(* C11. status.lastAppliedGeneration changes only in a Reconcile in which   *)
(* every declared backend completed without error, and then it becomes the  *)
(* Group's generation; a Reconcile in which a backend failed or which       *)
(* returned early, and every other step, leaves it as it was.               *)
(***************************************************************************)
C11_LastAppliedGeneration ==
    [][/\ gcr'.lastApplied # gcr.lastApplied
          => EveryBackendCompleted' /\ gcr'.lastApplied = gcr.generation
       /\ (lastRun'.op = "Reconcile" /\ ~EveryBackendCompleted')
          => gcr'.lastApplied = gcr.lastApplied]_vars

\* A Reconcile of generation 2 in which a backend failed got to the status
\* update and left the generation applied before.
C11_Witness ==
    /\ lastRun.op = "Reconcile"
    /\ lastRun.finalized
    /\ lastRun.k8sFailed = ""
    /\ lastRun.backendErrors # {}
    /\ gcr.generation = 2
    /\ gcr.lastApplied = 1

(***************************************************************************)
(* C12. A Reconcile that gets to the status update passes to UpdateStatus   *)
(* an isError flag that is true exactly when backendErrors is non-empty,    *)
(* and UpdateStatus sets the GroupReady condition to True exactly when      *)
(* backendErrors is empty, otherwise to False with reason ReconcileFailed;  *)
(* the Status().Update that succeeds stores that condition.                 *)
(***************************************************************************)
C12_StatusFinalization ==
    (lastRun.op = "Reconcile" /\ lastRun.finalized) =>
        /\ lastRun.isError <=> lastRun.backendErrors # {}
        /\ lastRun.cond = "True" <=> lastRun.backendErrors = {}
        /\ lastRun.backendErrors # {}
              => lastRun.cond = "False" /\ lastRun.reason = "ReconcileFailed"
        /\ lastRun.k8sFailed = ""
              => gcr.cond = lastRun.cond /\ gcr.reason = lastRun.reason

\* One backend of two failed and the stored condition is False.
C12_Witness ==
    /\ lastRun.op = "Reconcile"
    /\ lastRun.finalized
    /\ Cardinality(lastRun.backendErrors) = 1
    /\ gcr.cond = "False"
    /\ gcr.reason = "ReconcileFailed"
    /\ \E i \in DOMAIN gcr.backendsStatus : gcr.backendsStatus[i].status

(***************************************************************************)
(* C13. A Reconcile that reaches the loop over the declared backends        *)
(* returns an error exactly when backendErrors is non-empty, whether or not *)
(* the final Status().Update failed.                                        *)
(***************************************************************************)
C13_ReconcileError ==
    ReachedBackends => (lastRun.result = "error" <=> lastRun.backendErrors # {})

\* Reconcile returned the error of AddUserToTeam or RemoveUserFromTeam from
\* inside the loop: an error with nothing in backendErrors.
C13_Witness ==
    /\ ReachedBackends
    /\ lastRun.aborted
    /\ lastRun.result = "error"
    /\ lastRun.backendErrors = {}
    /\ \E i \in DOMAIN calls :
           calls[i].op \in {"AddUserToTeam", "RemoveUserFromTeam"} /\ ~calls[i].ok

(***************************************************************************)
(* C14. The job's locked section (Cache.Delete of a user's entry and the    *)
(* rewrite of user_list) never runs while a Reconcile is between its        *)
(* Cache.Get and its Cache.Set of that entry, and a Reconcile that got the  *)
(* entry before the job deleted it never writes it back afterwards.         *)
(***************************************************************************)
C14_SweepLinearization ==
    /\ cacheMutex = "write"
          => \A w \in WorkerIds : ~HoldsEntry(w, sweeper.userEmail)
    /\ \A w \in WorkerIds : ~workers[w].wroteStale

\* The job has deleted y's entry and is done with y; the worker that had
\* read the entry before has written it back with the rover id in it,
\* although y is gone from the directory.
C14_Witness ==
    /\ workers["w1"].wroteStale
    /\ sweeper.pc = "idle"
    /\ sweeper.runs = 1
    /\ "y" \notin directory
    /\ "xy@mail" \in DOMAIN cache
    /\ "rv_rover" \in DOMAIN cache["xy@mail"]

\* Reconcile has returned without error.
Finished(w) == workers[w].pc = "done" /\ ~workers[w].err

(***************************************************************************)
(* C15. When two Reconciles of different Groups that onboard the same user  *)
(* onto different backend instances have both returned without error, the   *)
(* user's cache entry holds the ids of both backend instances, however      *)
(* their Cache.Get and Cache.Set calls interleaved.                         *)
(***************************************************************************)
C15_NoLostUpdate ==
    (Finished("w1") /\ Finished("w2") /\ sweeper.pc = "idle" /\ sweeper.runs = 0)
        => \A w \in WorkerIds :
              \A u \in workers[w].ldap :
                  /\ EmailOf[u] \in DOMAIN cache
                  /\ BackendKey(workers[w].job.backend) \in DOMAIN cache[EmailOf[u]]

\* Both Reconciles onboarded y and returned without error, the job never
\* ran, and y's entry holds the id of one backend instance only.
C15_Witness ==
    /\ Finished("w1")
    /\ Finished("w2")
    /\ sweeper.runs = 0
    /\ "y" \in workers["w1"].ldap \cap workers["w2"].ldap
    /\ "xy@mail" \in DOMAIN cache
    /\ DOMAIN cache["xy@mail"] = {"ft_fivetran"}

(***************************************************************************)
(* C16. A Reconcile of a Group without deletion timestamp that gets past    *)
(* the finalizer step (the Update of lines 104-106 did not fail) leaves the *)
(* Group with the finalizer, however the Reconcile ends; and no Reconcile   *)
(* of such a Group takes the finalizer away.                                *)
(***************************************************************************)
C16_FinalizerPresence ==
    [][LiveReconcileStep =>
          /\ lastRun'.k8sFailed # "updateFinalizer" => gcr'.finalizer
          /\ gcr.finalizer => gcr'.finalizer]_vars

\* The first Reconcile of the Group failed after the finalizer step, at the
\* update of the owner references, and the Group carries the finalizer.
C16_Witness ==
    /\ lastRun.op = "Reconcile"
    /\ lastRun.path = "normal"
    /\ lastRun.k8sFailed = "updateOwner"
    /\ ~gcr.deleting
    /\ gcr.finalizer
    /\ gcr.cond = ""

(***************************************************************************)
(* Reference notions of the name transform                                  *)
(***************************************************************************)
\* The rule's regular expression compiles and matches the name.
RuleMatches(rule, chars) ==
    regexpCompiles(rule.input) /\ Len(FindStringSubmatch(rule.input, chars)) > 0

\* The first index in 1..Len(rules) that is in hits, 0 if there is none.
FirstIn(hits) == IF hits = {} THEN 0 ELSE CHOOSE i \in hits : \A j \in hits : i <= j

FirstMatch(rules, chars) == FirstIn({i \in DOMAIN rules : RuleMatches(rules[i], chars)})

FirstBad(rules) == FirstIn({i \in DOMAIN rules : ~regexpCompiles(rules[i].input)})

\* What the rule makes of the name.
OutputOf(rule, chars) ==
    processGroupName(rule.output, FindStringSubmatch(rule.input, chars))

\* The rule list a call for the type is to walk: the type's own, or the
\* list under "default" when the type has none.
RulesFor(typeName) ==
    IF typeName \in DOMAIN cfg.pattern THEN cfg.pattern[typeName]
    ELSE IF "default" \in DOMAIN cfg.pattern THEN cfg.pattern["default"]
    ELSE <<>>

Called == nameCall.typeName # ""

\* C17 as stated: whenever a rule of the selected list matches, the call
\* returns the output of the first such rule.
C17_AsStated ==
    Called =>
        LET rules == RulesFor(nameCall.typeName)
            chars == KeyChars[nameCall.inputStr]
            f == FirstMatch(rules, chars)
        IN f # 0 => /\ nameCall.err = ""
                    /\ nameCall.chars = OutputOf(rules[f], chars)

(***************************************************************************)
(* C17. GetTransformedGroupName walks the rules of the selected list in     *)
(* declared order: it returns the output of the first rule whose regular    *)
(* expression matches the name when every rule before it compiles, and an   *)
(* error when a rule that does not compile comes first. What it returns     *)
(* depends on the pattern lists, the type and the name only: in every state *)
(* the call is made in, it is this function of the three.                   *)
(***************************************************************************)
C17_NameTransform ==
    Called =>
        LET rules == RulesFor(nameCall.typeName)
            chars == KeyChars[nameCall.inputStr]
            f == FirstMatch(rules, chars)
            bad == FirstBad(rules)
        IN /\ (f # 0 /\ (bad = 0 \/ f < bad))
                => /\ nameCall.err = ""
                   /\ nameCall.chars = OutputOf(rules[f], chars)
           /\ (bad # 0 /\ (f = 0 \/ bad < f))
                => nameCall.err = "invalid regex pattern"

\* Two rules match the name with different outputs, the first one won; the
\* call was made after a Reconcile had filled the cache.
C17_Witness ==
    /\ Called
    /\ cache # [k \in {} |-> EmptyMap]
    /\ LET rules == RulesFor(nameCall.typeName)
           chars == KeyChars[nameCall.inputStr]
       IN /\ Len(rules) = 2
          /\ RuleMatches(rules[1], chars)
          /\ RuleMatches(rules[2], chars)
          /\ OutputOf(rules[1], chars) # OutputOf(rules[2], chars)
          /\ nameCall.err = ""
          /\ nameCall.chars = OutputOf(rules[1], chars)

\* What a walk over the rules is to return for the name.
Expected(rules, chars) ==
    LET f == FirstMatch(rules, chars)
        bad == FirstBad(rules)
    IN IF bad # 0 /\ (f = 0 \/ bad < f) THEN [err |-> "invalid regex pattern", chars |-> <<>>]
       ELSE IF f = 0 THEN [err |-> "no matching pattern", chars |-> <<>>]
       ELSE [err |-> "", chars |-> OutputOf(rules[f], chars)]

DefaultRules == IF "default" \in DOMAIN cfg.pattern THEN cfg.pattern["default"] ELSE <<>>

(***************************************************************************)
(* C18. The call walks the rules under "default" exactly when cfg.Pattern   *)
(* has no rule list for the backend type: with a list of its own the type   *)
(* gets what that list yields, also when nothing in it matches and a        *)
(* default rule would. When no rule of the selected list matches the call   *)
(* returns an error, and a Reconcile then records the error for the         *)
(* backend, makes no CreateTeam call and no cache write for it.             *)
(***************************************************************************)
C18_FallbackAndError ==
    /\ Called =>
          LET chars == KeyChars[nameCall.inputStr]
              selected == IF nameCall.typeName \in DOMAIN cfg.pattern
                          THEN cfg.pattern[nameCall.typeName]
                          ELSE DefaultRules
              want == Expected(selected, chars)
          IN /\ nameCall.err = want.err
             /\ nameCall.chars = want.chars
             /\ FirstMatch(selected, chars) = 0 => nameCall.err # ""
    /\ ReachedBackends =>
          \A i \in DOMAIN gcr.backends :
             LET b == gcr.backends[i] IN
             (/\ Processed(b)
              /\ clientsNew(b, cfg.backendMap) = "ok"
              /\ FirstMatch(RulesFor(b.type), KeyChars[gcr.groupName]) = 0)
                => /\ b.type \in lastRun.backendErrors
                   /\ CallsOf("CreateTeam", BackendKey(b)) = {}
                   /\ CallsOf("CreateUser", BackendKey(b)) = {}
                   /\ CallsOf("CacheSet", BackendKey(b)) = {}

\* fivetran has a rule list of its own in which nothing matches the group
\* name while the default rules match it: the Reconcile recorded the error
\* for fivetran and made no team there, and rover, on the default rules,
\* got its team.
C18_Witness ==
    /\ ReachedBackends
    /\ "fivetran" \in DOMAIN cfg.pattern
    /\ FirstMatch(cfg.pattern["fivetran"], KeyChars[gcr.groupName]) = 0
    /\ FirstBad(cfg.pattern["fivetran"]) = 0
    /\ FirstMatch(DefaultRules, KeyChars[gcr.groupName]) = 1
    /\ lastRun.backendErrors = {"fivetran"}
    /\ CallsOf("CreateTeam", "ft_fivetran") = {}
    /\ CallsOf("CreateTeam", "rv_rover") # {}


\* C19: a task with a non-zero interval runs its body once at start, before
\* it sleeps on its ticker: a unit that waits in its select, or has left it,
\* has started its body at least once.
C19_BodyAtStart ==
    \A t \in {p \in TaskIds : GetInterval[p] # syncOnceInterval} :
        units[t].pc \in {"select", "exited"} => units[t].runs >= 1

\* A periodic unit has exited on cancellation and its body never ran.
C19_Witness ==
    \E t \in {p \in TaskIds : GetInterval[p] # syncOnceInterval} :
        ctxDone /\ units[t].pc = "exited" /\ units[t].runs = 0

\* C20: once the context is cancelled no body of a periodic task is started
\* again, a tick pending together with the cancellation included.
C20_NoStartAfterCancel ==
    \A t \in {p \in TaskIds : GetInterval[p] # syncOnceInterval} : ~units[t].lateStart

\* A periodic unit took the pending tick although the context was cancelled,
\* and its body runs.
C20_Witness ==
    \E t \in {p \in TaskIds : GetInterval[p] # syncOnceInterval} :
        ctxDone /\ units[t].pc = "running" /\ units[t].lateStart

\* The other half of C20, which the code keeps under SpecTasksFair: after
\* the cancellation every started unit exits.
UnitsExit ==
    \A t \in TaskIds :
        (ctxDone /\ units[t].pc # "new") ~> (units[t].pc = "exited")


\* C21: RunAll is invoked only after a probe attempt whose Set and Get both
\* succeeded; Start makes at most maxRetries attempts, returns an error and
\* starts no task when the last of them fails, and a turn of the probe loop
\* that finds the context cancelled makes no attempt, starts no task and
\* returns the context's error.
C21_StartupGate ==
    /\ [](/\ (\E t \in TaskIds : units[t].pc # "new") => gate.setOk /\ gate.getOk
          /\ gate.i <= maxRetries
          /\ (gate.i = maxRetries /\ ~(gate.setOk /\ gate.getOk)
                => gate.pc = "returned" /\ gate.err \in {"set failed", "get failed"})
          /\ (gate.err # "" => \A t \in TaskIds : units[t].pc = "new"))
    /\ [][gate.pc = "probing" /\ ctxDone /\ gate' # gate
            => /\ gate' = [gate EXCEPT !.pc = "returned", !.err = "context canceled"]
               /\ units' = units]_vars

\* Start has started the tasks on its third attempt, after two that failed.
C21_Witness ==
    /\ gate.pc = "returned" /\ gate.err = "" /\ gate.i = 3
    /\ \A t \in TaskIds : units[t].pc # "new"


\* C22: when the context is cancelled during Run, the sweep stops before it
\* starts the next user of user_list: the loop never goes on to a user with
\* the context cancelled.
C22_StopsBetweenUsers ==
    ~sweeper.late

\* The context was cancelled during the first user; the second one was
\* started all the same and is now being removed from the cache.
C22_Witness ==
    /\ ctxDone /\ sweeper.late
    /\ sweeper.i = 2 /\ sweeper.pc = "rewrite"


\* The last underscore-separated segment of a key, lower-cased, is the type
\* named: the key ends with the type's characters in some case, and what
\* comes before them, if anything, ends with an underscore.
HasType(bkey, typeName) ==
    LET k == JobKeyChars[bkey]
        t == TypeChars[typeName]
        from == Len(k) - Len(t)
    IN /\ from >= 0
       /\ ToLower(SubSeq(k, from + 1, Len(k))) = t
       /\ from > 0 => k[from] = "_"

\* C23: DeleteUser is never invoked on a configured backend whose type, the
\* last underscore-separated segment of its key lower-cased, is rover or
\* gitlab, whatever the user's cached mapping holds.
C23_PreservedBackends ==
    lastRun.op = "Offboard" =>
        \A i \in DOMAIN calls :
            calls[i].op = "DeleteUser"
                => ~HasType(calls[i].b, "rover") /\ ~HasType(calls[i].b, "gitlab")

\* The user has an id on rv_Rover, gl_GITLAB and ft_fivetran, all three
\* configured, and DeleteUser was called on ft_fivetran.
C23_Witness ==
    /\ lastRun.op = "Offboard"
    /\ {"rv_Rover", "gl_GITLAB", "ft_fivetran"} \subseteq
           backendClients(cfg) \cap DOMAIN sweeper.userData
    /\ \E i \in DOMAIN calls : calls[i].op = "DeleteUser" /\ calls[i].b = "ft_fivetran"


Live(key, t) ==
    /\ key \in DOMAIN imcHist
    /\ imcHist[key].kind = "set"
    /\ LET d == IF imcHist[key].ttl = 0 THEN imc.defaultExpiration
                 ELSE imcHist[key].ttl
       IN d <= 0 \/ t <= imcHist[key].at + d

C26_ExpandsFromRequest ==
    (/\ lastRun.op = "Reconcile" /\ lastRun.path = "normal"
     /\ lastRun.k8sFailed = "" /\ ~lastRun.aborted /\ AllCallsOk)
        => Range(store[ReconciledName].users) \subseteq Range(reconciledUsers)

\* The Group's spec.group_name is the name of no Group object: the
\* expansion was started from that name, failed, and ReconciledUsers has
\* none of the Group's users.
C26_Witness ==
    /\ lastRun.op = "Reconcile" /\ lastRun.path = "normal"
    /\ lastRun.k8sFailed = "" /\ ~lastRun.aborted /\ AllCallsOk
    /\ gcr.groupName # ReconciledName
    /\ expRoot = gcr.groupName
    /\ fetched.err # "none"
    /\ store[ReconciledName].users # <<>>
    /\ reconciledUsers = <<>>


\* The place of a backend call in the order of one backend's processing
\* (0 for a call the order says nothing about).
StepRank(op) ==
    CASE op = "CreateTeam" -> 1
      [] op = "CreateUser" -> 2
      [] op = "FetchTeamMembersByTeamID" -> 3
      [] op = "AddUserToTeam" -> 4
      [] op = "RemoveUserFromTeam" -> 5
      [] OTHER -> 0

\* The place of the backend with the given key in spec.backends.
DeclaredAt(key) ==
    CHOOSE i \in DOMAIN gcr.backends : BackendKey(gcr.backends[i]) = key

\* C27: among the calls of one Reconcile of the live Group, those made for
\* one backend come in the order CreateTeam, CreateUser,
\* FetchTeamMembersByTeamID, AddUserToTeam, RemoveUserFromTeam, and the
\* calls made for a backend declared earlier all come before those made for
\* one declared later.
C27_OperationOrder ==
    (lastRun.op = "Reconcile" /\ lastRun.path = "normal") =>
        \A i \in DOMAIN calls : \A j \in DOMAIN calls :
            i < j =>
                /\ DeclaredAt(calls[i].b) <= DeclaredAt(calls[j].b)
                /\ (/\ calls[i].b = calls[j].b
                    /\ StepRank(calls[i].op) > 0
                    /\ StepRank(calls[j].op) > 0
                    /\ StepRank(calls[i].op) # StepRank(calls[j].op))
                       => StepRank(calls[i].op) < StepRank(calls[j].op)

\* One Reconcile added to and removed from the team of its first backend
\* and went on to the second.
C27_Witness ==
    /\ lastRun.op = "Reconcile" /\ lastRun.path = "normal"
    /\ CallsOf("AddUserToTeam", BackendKey(gcr.backends[1])) # {}
    /\ CallsOf("RemoveUserFromTeam", BackendKey(gcr.backends[1])) # {}
    /\ CallsOf("FetchTeamMembersByTeamID", BackendKey(gcr.backends[2])) # {}

(***************************************************************************)
(* SpecSteps: the live Group of Spec, with the three steps Reconcile takes  *)
(* for a backend between clients.New and the membership calls taken one at  *)
(* a time: fetchOrCreateTeam, createUsersInBackendAndCache and processUsers *)
(* are applied to the state as it is, and lastRun records what they were    *)
(* given and what they returned. As in Spec, at most one operation of a     *)
(* behaviour meets a fault.                                                 *)
(***************************************************************************)
\* The current members FetchTeamMembersByTeamID can have returned.
MemberSets == {{}, {"x", "y"}, {"uid_x", "y"}, {"uid_x", "uid_y", "x"}}

\* Nothing fails, or one of the given steps fails for the backend.
StepFaults(b, steps) == {{}} \cup {{Fault(BackendKey(b), s)} : s \in steps}

StepRecord(op, b, err, more) ==
    more @@ [NoRun EXCEPT !.op = op, !.path = BackendKey(b), !.isError = err]

\* group_controller.go:181: the team of one backend.
FetchOrCreateTeamStep(b, faults) ==
    /\ gcr.exists
    /\ ~gcr.deleting
    /\ clientsNew(b, cfg.backendMap) = "ok"
    /\ faults # {} => ~faultMet
    /\ faultMet' = (faultMet \/ faults # {})
    /\ \E r \in {fetchOrCreateTeam(EnvNow, cfg, gcr.groupName, b, faults)} :
       /\ cache' = r.env.cache
       /\ teams' = r.env.teams
       /\ calls' = r.env.calls
       /\ lastRun' = StepRecord("fetchOrCreateTeam", b, r.err, [teamID |-> r.teamID])
    /\ lastSweep' = NoSweep
    /\ UNCHANGED <<store, expRoot, fetched, reconciledUsers, gcr, cfg, directory,
                   teamMembers, busers, deletedTeams, recordedAtDeletion,
                   userList>>
    /\ UNCHANGED varsAux

\* group_controller.go:191: the accounts of the users, for one backend.
CreateUsersStep(users, b, faults) ==
    /\ gcr.exists
    /\ ~gcr.deleting
    /\ clientsNew(b, cfg.backendMap) = "ok"
    /\ faults # {} => ~faultMet
    /\ faultMet' = (faultMet \/ faults # {})
    /\ \E r \in {createUsersInBackendAndCache(EnvNow, users, b,
                                              Range(users) \cap directory, faults)} :
       /\ cache' = r.env.cache
       /\ busers' = r.env.busers
       /\ calls' = r.env.calls
       /\ lastRun' = StepRecord("createUsersInBackendAndCache", b, r.err,
                                [users |-> users])
    /\ lastSweep' = NoSweep
    /\ UNCHANGED <<store, expRoot, fetched, reconciledUsers, gcr, cfg, directory,
                   teams, teamMembers, deletedTeams, recordedAtDeletion,
                   userList>>
    /\ UNCHANGED varsAux

\* group_controller.go:212: the diff, for one backend.
ProcessUsersStep(users, members, b, faults) ==
    /\ gcr.exists
    /\ ~gcr.deleting
    /\ clientsNew(b, cfg.backendMap) = "ok"
    /\ faults # {} => ~faultMet
    /\ faultMet' = (faultMet \/ faults # {})
    /\ \E r \in {processUsers(EnvNow, users, members, b,
                              Range(users) \cap directory, faults)} :
       /\ calls' = r.env.calls
       /\ lastRun' = StepRecord("processUsers", b, r.err,
                                [users |-> users, members |-> members,
                                 usersToAdd |-> r.usersToAdd,
                                 usersToRemove |-> r.usersToRemove])
    /\ lastSweep' = NoSweep
    /\ UNCHANGED <<store, expRoot, fetched, reconciledUsers, gcr, cfg, directory,
                   cache, teams, teamMembers, busers, deletedTeams,
                   recordedAtDeletion, userList>>
    /\ UNCHANGED varsAux

FetchOrCreateTeamAny ==
    \E b \in Range(gcr.backends) :
        \E faults \in StepFaults(b, {"teamCacheGet", "createTeam", "teamCacheSet"}) :
            FetchOrCreateTeamStep(b, faults)

CreateUsersAny ==
    \E users \in UserLists : \E b \in Range(gcr.backends) :
        \E faults \in StepFaults(b, {"userCacheGet", "createUser", "userCacheSet"}) :
            CreateUsersStep(users, b, faults)

ProcessUsersAny ==
    \E users \in UserLists : \E members \in MemberSets : \E b \in Range(gcr.backends) :
        \E faults \in StepFaults(b, {"procCacheGet"}) :
            ProcessUsersStep(users, members, b, faults)

\* A Reconcile of the live Group in which CreateUser fails for one backend.
ReconcileCreateUserFails ==
    /\ ~gcr.deleting
    /\ ~faultMet
    /\ \E b \in Range(gcr.backends) :
           Reconcile({Fault(BackendKey(b), "createUser")}, {})

\* Two backends of different types that share the team name.
StepScenarios == {<<"a", <<BFt, BRv>>, CfgDefault>>}

InitSteps ==
    /\ store = SpecStore
    /\ expRoot = ""
    /\ fetched = NoFetch
    /\ reconciledUsers = <<>>
    /\ \E sc \in StepScenarios : InitRecWith(sc[1], sc[2], sc[3])

NextSteps ==
    \/ ReconcileHealthy
    \/ ReconcileCreateUserFails
    \/ DirectoryAny
    \/ FetchOrCreateTeamAny
    \/ CreateUsersAny
    \/ ProcessUsersAny

SpecSteps == InitSteps /\ [][NextSteps]_vars

\* The cache key of the team entry of backend b of the reconciled Group.
TeamEntry(b) == GetTransformedGroupName(cfg, b.type, gcr.groupName).name

\* The backend keys the entry with the given cache key holds an id for.
IdsHeld(cch, entry) == IF entry \in DOMAIN cch THEN DOMAIN cch[entry] ELSE {}

\* The entry holds a non-empty id for the backend key.
HoldsId(cch, entry, key) == key \in IdsHeld(cch, entry) /\ cch[entry][key] # ""

\* The step taken is fetchOrCreateTeam for backend b.
FetchedTeamFor(b) ==
    lastRun'.op = "fetchOrCreateTeam" /\ lastRun'.path = BackendKey(b)

\* The calls with one of the given names in the log of the step.
Made(log, ops) == {i \in DOMAIN log : log[i].op \in ops}

(***************************************************************************)
(* C28. Fetch-or-create team: when the cache entry of the transformed name  *)
(* holds a non-empty id for the backend instance, fetchOrCreateTeam returns *)
(* it, calls no CreateTeam and writes nothing to the cache; otherwise it    *)
(* calls CreateTeam once, and when it succeeds the entry holds the new id   *)
(* under <name>_<type> and every other backend instance's id it held.       *)
(***************************************************************************)
C28_FetchOrCreateTeam ==
    [][\A b \in Range(gcr.backends) :
         FetchedTeamFor(b) =>
            IF HoldsId(cache, TeamEntry(b), BackendKey(b))
            THEN /\ ~lastRun'.isError
                 /\ lastRun'.teamID = cache[TeamEntry(b)][BackendKey(b)]
                 /\ Made(calls', {"CreateTeam", "CacheSet"}) = {}
                 /\ cache' = cache
            ELSE /\ Cardinality(Made(calls', {"CreateTeam"})) = 1
                 /\ ~lastRun'.isError =>
                       /\ HoldsId(cache', TeamEntry(b), BackendKey(b))
                       /\ cache'[TeamEntry(b)][BackendKey(b)] = lastRun'.teamID
                       /\ \A k \in IdsHeld(cache, TeamEntry(b)) \ {BackendKey(b)} :
                              /\ k \in IdsHeld(cache', TeamEntry(b))
                              /\ cache'[TeamEntry(b)][k] = cache[TeamEntry(b)][k]]_vars

\* fetchOrCreateTeam ran for fivetran while the cache read failed: it
\* created a team and wrote an entry that no longer holds the id of rover's
\* team, which exists.
C28_Witness ==
    /\ lastRun.op = "fetchOrCreateTeam"
    /\ lastRun.path = BackendKey(BFt)
    /\ ~lastRun.isError
    /\ \E i \in Made(calls, {"CacheGet"}) : ~calls[i].ok
    /\ Made(calls, {"CreateTeam"}) # {}
    /\ teams[BackendKey(BRv)] # {}
    /\ IdsHeld(cache, TeamEntry(BFt)) = {BackendKey(BFt)}

\* The step taken is createUsersInBackendAndCache for backend b.
OnboardedFor(b) ==
    lastRun'.op = "createUsersInBackendAndCache" /\ lastRun'.path = BackendKey(b)

\* The CreateUser calls made for user u on backend b in the log.
CreateUserCalls(log, b, u) ==
    {i \in DOMAIN log : /\ log[i].op = "CreateUser"
                        /\ log[i].b = BackendKey(b)
                        /\ log[i].args = <<u>>}

\* The call at place i of the log succeeded and so did the Cache.Set that
\* follows it.
CreatedAndStored(log, i) == log[i].ok /\ i < Len(log) /\ log[i + 1].ok

(***************************************************************************)
(* C29. Ensure user onboarded: createUsersInBackendAndCache calls           *)
(* CreateUser for a user exactly when the user has directory data and the   *)
(* cache entry of the user's email holds no id for the backend instance     *)
(* (for the users it gets to before it stops); after a successful create    *)
(* the entry holds the returned id under <name>_<type> and every other      *)
(* backend instance's id it held; a failing CreateUser is the last call     *)
(* made for the backend, whose type is recorded in backendErrors, and the   *)
(* Reconcile goes on to every other declared backend.                       *)
(***************************************************************************)
C29_EnsureUserOnboarded ==
    [][\A b \in Range(gcr.backends) :
         /\ OnboardedFor(b) =>
               \A u \in Range(lastRun'.users) :
                  /\ CreateUserCalls(calls', b, u) # {}
                        => /\ u \in directory
                           /\ ~HoldsId(cache, EmailOf[u], BackendKey(b))
                  /\ (/\ u \in directory
                      /\ ~HoldsId(cache, EmailOf[u], BackendKey(b))
                      /\ ~lastRun'.isError) => CreateUserCalls(calls', b, u) # {}
                  /\ \A i \in CreateUserCalls(calls', b, u) :
                        /\ CreatedAndStored(calls', i) =>
                              /\ HoldsId(cache', EmailOf[u], BackendKey(b))
                              /\ cache'[EmailOf[u]][BackendKey(b)] = CreateUserID(b, u)
                              /\ \A k \in IdsHeld(cache, EmailOf[u]) \ {BackendKey(b)} :
                                    /\ k \in IdsHeld(cache', EmailOf[u])
                                    /\ cache'[EmailOf[u]][k] = cache[EmailOf[u]][k]
                        /\ ~calls'[i].ok => i = Len(calls') /\ lastRun'.isError
         /\ (/\ lastRun'.op = "Reconcile"
             /\ \E i \in Made(calls', {"CreateUser"}) :
                   calls'[i].b = BackendKey(b) /\ ~calls'[i].ok)
               => /\ b.type \in lastRun'.backendErrors
                  /\ ~lastRun'.aborted
                  /\ \A i \in Made(calls', {"CreateUser"}) : \A j \in DOMAIN calls' :
                        (calls'[i].b = BackendKey(b) /\ ~calls'[i].ok /\ j > i)
                           => calls'[j].b # BackendKey(b)
                  /\ \A d \in Range(gcr.backends) :
                        Made(calls', {"clients.New"}) \cap
                            {i \in DOMAIN calls' : calls'[i].b = BackendKey(d)} # {}]_vars

\* createUsersInBackendAndCache ran for fivetran and user x while the cache
\* read failed: it created the account and wrote an entry that holds
\* fivetran's id only, where the entry of y holds rover's id too.
C29_Witness ==
    /\ lastRun.op = "createUsersInBackendAndCache"
    /\ lastRun.path = BackendKey(BFt)
    /\ lastRun.users = <<"x">>
    /\ ~lastRun.isError
    /\ \E i \in Made(calls, {"CacheGet"}) : ~calls[i].ok
    /\ CreateUserCalls(calls, BFt, "x") # {}
    /\ IdsHeld(cache, EmailOf["x"]) = {BackendKey(BFt)}
    /\ IdsHeld(cache, EmailOf["y"]) = {BackendKey(BFt), BackendKey(BRv)}

\* The ids to sync: the id the cache holds, for the backend key, under the
\* email of every user of the list that has directory data.
ToSync(cch, users, key) ==
    {cch[EmailOf[u]][key] :
         u \in {v \in Range(users) \cap directory : HoldsId(cch, EmailOf[v], key)}}

(***************************************************************************)
(* C30. Diff: for every user list and every set of current members, a       *)
(* processUsers that returns no error returns as toAdd the ids to sync that *)
(* are not current members and as toRemove the current members' ids that    *)
(* are not ids to sync, the ids being the backend's own.                    *)
(***************************************************************************)
C30_Diff ==
    (lastRun.op = "processUsers" /\ ~lastRun.isError) =>
        /\ Range(lastRun.usersToAdd) =
               ToSync(cache, lastRun.users, lastRun.path) \ lastRun.members
        /\ Range(lastRun.usersToRemove) =
               lastRun.members \ ToSync(cache, lastRun.users, lastRun.path)

\* processUsers returned an id to add and ids to remove, one of them the
\* raw name of a user of the list that has no directory data.
C30_Witness ==
    /\ lastRun.op = "processUsers"
    /\ ~lastRun.isError
    /\ lastRun.usersToAdd # <<>>
    /\ \E u \in Range(lastRun.users) \ directory : u \in Range(lastRun.usersToRemove)
    /\ \E id \in Range(lastRun.usersToRemove) : id \notin Range(lastRun.users)

(***************************************************************************)
(* SpecOwner: setOwnerReference (group_controller.go:614-676) on one Group  *)
(* whose members.groups is edited between the calls, while another          *)
(* controller adds owner references of its own and a Group of the           *)
(* namespace is deleted and created again. ownerCall holds the owner        *)
(* references stored on the object, the UID of every Group of the           *)
(* namespace, and what the last call was given and did.                     *)
(***************************************************************************)
\* The owner references another controller sets.
MaxForeign == 2

\* usernautdevv1alpha1.GroupVersion.String()
GroupVersionString == "operator.dataverse.redhat.com/v1alpha1"

OwnerReference(apiVersion, kind, name, uid, block) ==
    [apiVersion |-> apiVersion, kind |-> kind, name |-> name, uid |-> uid,
     blockOwnerDeletion |-> block]

\* References that are not to a Group of this API: a Deployment, and a kind
\* called Group of another API.
ForeignRefs ==
    {OwnerReference("apps/v1", "Deployment", "d", "uid_d", FALSE),
     OwnerReference("other/v1", "Group", "a", "uid_o", TRUE)}

\* members.groups of the Group, as edited: c names no Group.
GroupLists == {<<>>, <<"a">>, <<"b">>, <<"a", "b">>, <<"b", "a", "b">>, <<"a", "c">>}

\* Line 638: the reference is to a Group of this API.
IsGroupRef(ref) == ref.kind = "Group" /\ ref.apiVersion = GroupVersionString

\* Lines 616-632: the desired references by UID, or the failure of a Get.
desiredOwnerRefs(cluster, groups) ==
    IF \E i \in DOMAIN groups : groups[i] \notin DOMAIN cluster
    THEN [err |-> TRUE, refs |-> {}]
    ELSE [err |-> FALSE,
          refs |-> {OwnerReference(GroupVersionString, "Group", groups[i],
                                   cluster[groups[i]], TRUE) : i \in DOMAIN groups}]

\* The orders in which a range over a map can yield the given values.
Orders(S) == {q \in [1..Cardinality(S) -> S] : Range(q) = S}

\* A setOwnerReference that writes the Group references only.
setOwnerReferenceGroupsOnly(refs, cluster, groups, order, updateFails) ==
    Bind(desiredOwnerRefs(cluster, groups), LAMBDA d :
    IF d.err THEN [refs |-> refs, updated |-> FALSE, err |-> TRUE]
    ELSE IF {r.uid : r \in d.refs} =
            {refs[i].uid : i \in {j \in DOMAIN refs : IsGroupRef(refs[j])}}
    THEN [refs |-> refs, updated |-> FALSE, err |-> FALSE]
    ELSE IF updateFails THEN [refs |-> refs, updated |-> TRUE, err |-> TRUE]
    ELSE [refs |-> order, updated |-> TRUE, err |-> FALSE])

\* Lines 614-676. order is the order in which the range over
\* desiredOwnerRefs (line 664) yields the references; refs is what the
\* object holds in the cluster afterwards.
setOwnerReference(refs, cluster, groups, order, updateFails) ==
    Bind(desiredOwnerRefs(cluster, groups), LAMBDA d :
    IF d.err THEN [refs |-> refs, updated |-> FALSE, err |-> TRUE]
    ELSE
    LET nonGroupOwnerRefs == SelectSeq(refs, LAMBDA r : ~IsGroupRef(r))
        existingGroupOwnerRefs ==
            {refs[i].uid : i \in {j \in DOMAIN refs : IsGroupRef(refs[j])}}
        desiredUIDs == {r.uid : r \in d.refs}
        needsUpdate ==
            \/ Cardinality(desiredUIDs) # Cardinality(existingGroupOwnerRefs)
            \/ \E uid \in desiredUIDs : uid \notin existingGroupOwnerRefs
    IN IF ~needsUpdate THEN [refs |-> refs, updated |-> FALSE, err |-> FALSE]
       ELSE IF updateFails THEN [refs |-> refs, updated |-> TRUE, err |-> TRUE]
       ELSE [refs |-> nonGroupOwnerRefs \o order, updated |-> TRUE, err |-> FALSE])

\* Reconcile gets to line 109 with the given members.groups.
SetOwnerReference(groups, updateFails) ==
    /\ \E d \in {desiredOwnerRefs(ownerCall.cluster, groups)} :
       \E order \in Orders(d.refs) :
       \E r \in {setOwnerReference(ownerCall.refs, ownerCall.cluster, groups, order,
                                   updateFails)} :
          ownerCall' = [op |-> "setOwnerReference", refs |-> r.refs,
                        cluster |-> ownerCall.cluster, groups |-> groups,
                        before |-> ownerCall.refs, updated |-> r.updated,
                        err |-> r.err]
    /\ UNCHANGED <<varsExpand, varsRec, varsConc, nameCall, varsTasks, gate, varsLdap,
                   varsImc, batch, watch>>

\* Another controller appends an owner reference of its own.
ForeignOwner(ref) ==
    /\ Cardinality({i \in DOMAIN ownerCall.refs : ~IsGroupRef(ownerCall.refs[i])})
           < MaxForeign
    /\ \A i \in DOMAIN ownerCall.refs : ownerCall.refs[i] # ref
    /\ ownerCall' = [ownerCall EXCEPT !.op = "foreign", !.refs = Append(@, ref),
                                      !.before = ownerCall.refs]
    /\ UNCHANGED <<varsExpand, varsRec, varsConc, nameCall, varsTasks, gate, varsLdap,
                   varsImc, batch, watch>>

\* Group b is deleted and created again: the name gets a new UID.
RecreateGroup ==
    /\ ownerCall.cluster["b"] = "uid_b"
    /\ ownerCall' = [ownerCall EXCEPT !.op = "recreate", !.cluster["b"] = "uid_b2",
                                      !.before = ownerCall.refs]
    /\ UNCHANGED <<varsExpand, varsRec, varsConc, nameCall, varsTasks, gate, varsLdap,
                   varsImc, batch, watch>>

NextOwner ==
    \/ \E groups \in GroupLists : \E updateFails \in BOOLEAN :
           SetOwnerReference(groups, updateFails)
    \/ \E ref \in ForeignRefs : ForeignOwner(ref)
    \/ RecreateGroup

SpecOwner == InitSteps /\ [][NextOwner]_vars

\* The references of the list that are to a Group of this API, and the rest.
GroupRefs(refs) == SelectSeq(refs, LAMBDA r : IsGroupRef(r))

OtherRefs(refs) == SelectSeq(refs, LAMBDA r : ~IsGroupRef(r))

\* The UIDs of the Groups named in the members.groups of the last call.
NamedUIDs == {ownerCall.cluster[ownerCall.groups[i]] : i \in DOMAIN ownerCall.groups}

ToOffboard ==
    {k \in backendClients(cfg) \cap DOMAIN sweeper.userData :
         ~HasType(k, "rover") /\ ~HasType(k, "gitlab")}

(***************************************************************************)
(* C32. In offboarding one user, DeleteUser is attempted once on every      *)
(* configured backend that is not preserved and that the user's mapping     *)
(* lists, whichever of the calls fail, and the error returned names every   *)
(* backend whose DeleteUser failed (none failed: no error).                 *)
(***************************************************************************)
C32_AccumulatesErrors ==
    lastRun.op = "Offboard" =>
        /\ \A k \in ToOffboard : Cardinality(CallsOf("DeleteUser", k)) = 1
        /\ lastRun.backendErrors =
               {calls[i].b : i \in {j \in Made(calls, {"DeleteUser"}) : ~calls[j].ok}}
        /\ lastRun.result = "error" <=> lastRun.backendErrors # {}

\* DeleteUser failed on one backend and was made on the other, which the
\* loop got to afterwards; the error names the first.
C32_Witness ==
    /\ lastRun.op = "Offboard"
    /\ Cardinality(ToOffboard) = 2
    /\ lastRun.backendErrors = {calls[1].b}
    /\ Len(calls) = 2
    /\ calls[2].ok

(***************************************************************************)
(* SpecBatch: FivetranClient.AddUserToTeam and RemoveUserFromTeam           *)
(* (pkg/clients/fivetran, the batch variant): the caller's loop starts one  *)
(* goroutine per user id after taking a slot of the semaphore, each         *)
(* goroutine makes its request, reports a failure on the error channel,     *)
(* gives the slot back and tells the wait group; the caller waits for the   *)
(* group and returns. batch holds the position of the loop, the goroutines, *)
(* the ids whose request failed, the largest number of requests that were   *)
(* in flight together, and what the call returned.                          *)
(***************************************************************************)
\* The capacity of the semaphore.
maxConcurrentUsers == 10

\* The longest list of user ids.
MaxBatch == 11

BatchSizes == {0, 1, MaxBatch}

\* The ids whose request can fail: the first and the last of the list.
CanFail(n) == {1, n}

\* The goroutines whose request is in flight; each holds a slot.
InFlight(b) == {k \in DOMAIN b.pc : b.pc[k] = "flight"}

\* A semaphore that always has a slot.
semAlwaysFree(b) == TRUE

\* sem <- struct{}{} goes through: fewer than maxConcurrentUsers slots are taken.
semFree(b) == Cardinality(InFlight(b)) < maxConcurrentUsers

\* Lines 64-74, 117-126: the call starts.
BatchBegin(op, n) ==
    /\ batch.op = "none"
    /\ batch' = [NoBatch EXCEPT !.op = op, !.n = n, !.pc = [k \in 1..n |-> "new"]]
    /\ UNCHANGED <<varsExpand, varsRec, varsConc, nameCall, varsTasks, gate, varsLdap,
                   varsImc, ownerCall, watch>>

\* Lines 76-80, 128-132: wg.Add(1), the slot, and the goroutine for the next id.
Spawn ==
    /\ batch.op # "none"
    /\ ~batch.returned
    /\ batch.i < batch.n
    /\ semFree(batch)
    /\ batch' = [batch EXCEPT !.i = @ + 1, !.pc[batch.i + 1] = "flight",
                              !.peak = IF Cardinality(InFlight(batch)) + 1 > @
                                       THEN Cardinality(InFlight(batch)) + 1 ELSE @]
    /\ UNCHANGED <<varsExpand, varsRec, varsConc, nameCall, varsTasks, gate, varsLdap,
                   varsImc, ownerCall, watch>>

\* Lines 80-101, 132-149: the request of goroutine k comes back; a failure
\* goes to errch, which has room for every id; the deferred calls give the
\* slot back and call wg.Done.
Finish(k, fails) ==
    /\ k \in InFlight(batch)
    /\ fails => k \in CanFail(batch.n)
    /\ batch' = [batch EXCEPT !.pc[k] = "done",
                              !.failed = IF fails THEN @ \cup {k} ELSE @]
    /\ UNCHANGED <<varsExpand, varsRec, varsConc, nameCall, varsTasks, gate, varsLdap,
                   varsImc, ownerCall, watch>>

\* Lines 104-114, 153-164: wg.Wait returns, errch is closed and read.
BatchReturn ==
    /\ batch.op # "none"
    /\ ~batch.returned
    /\ batch.i = batch.n
    /\ InFlight(batch) = {}
    /\ batch' = [batch EXCEPT !.returned = TRUE, !.err = batch.failed # {}]
    /\ UNCHANGED <<varsExpand, varsRec, varsConc, nameCall, varsTasks, gate, varsLdap,
                   varsImc, ownerCall, watch>>

NextBatch ==
    \/ \E op \in {"AddUserToTeam", "RemoveUserFromTeam"} : \E n \in BatchSizes :
           BatchBegin(op, n)
    \/ Spawn
    \/ \E k \in 1..MaxBatch : \E fails \in BOOLEAN : Finish(k, fails)
    \/ BatchReturn

SpecBatch == InitSteps /\ [][NextBatch]_vars

(***************************************************************************)
(* C33. Fivetran batch membership: AddUserToTeam and RemoveUserFromTeam     *)
(* never have more than 10 requests in flight at once; when they return,    *)
(* the request of every user id of the batch has been made and has          *)
(* finished, whichever failed, and the error returned is there if and only  *)
(* if a request failed.                                                     *)
(***************************************************************************)
C33_BatchMembership ==
    /\ Cardinality(InFlight(batch)) <= 10
    /\ batch.returned =>
          /\ \A k \in 1..batch.n : batch.pc[k] = "done"
          /\ batch.err <=> batch.failed # {}

\* A call with more than ten ids returned an error: ten requests were in
\* flight at once, the first failed and the last was made all the same.
C33_Witness ==
    /\ batch.returned
    /\ batch.n > 10
    /\ batch.peak = 10
    /\ batch.failed = {1}
    /\ batch.err

\* The last operation was a Reconcile of the live Group that got past line
\* 116: its Status().Update of the Waiting condition went through.
PersistedWaiting ==
    /\ lastRun.op = "Reconcile"
    /\ lastRun.path = "normal"
    /\ lastRun.k8sFailed \notin {"updateFinalizer", "updateOwner", "statusWaiting"}

(***************************************************************************)
(* C34. A Reconcile that persisted the Unknown / Waiting condition has      *)
(* replaced it by True or False when it returns, whether it returns nil or  *)
(* an error.                                                                *)
(***************************************************************************)
C34_WaitingReplaced ==
    PersistedWaiting => gcr.cond \in {"True", "False"}

\* A Reconcile persisted Waiting, AddUserToTeam failed for its first
\* backend and it returned: the condition is still Unknown / Waiting.
C34_Witness ==
    /\ PersistedWaiting
    /\ lastRun.aborted
    /\ \E i \in Made(calls, {"AddUserToTeam"}) : ~calls[i].ok
    /\ gcr.cond = "Unknown"
    /\ gcr.reason = "Waiting"

\* Backend b failed in the last Reconcile: its adapter could not be built,
\* its team name could not be derived, or a call made for it failed (a
\* Cache.Get that fails before the members are fetched is taken for a miss
\* and is no failure of the backend).
BackendFailed(b) ==
    \/ GetTransformedGroupName(cfg, b.type, gcr.groupName).err
    \/ \E i \in DOMAIN calls :
          /\ calls[i].b = BackendKey(b)
          /\ ~calls[i].ok
          /\ calls[i].op = "CacheGet"
                => \E j \in 1..(i - 1) :
                      /\ calls[j].b = BackendKey(b)
                      /\ calls[j].op = "FetchTeamMembersByTeamID"

\* The last operation was a Reconcile that built and stored the final status.
StatusFinalized ==
    /\ lastRun.op = "Reconcile"
    /\ lastRun.path = "normal"
    /\ lastRun.finalized
    /\ lastRun.k8sFailed = ""

(***************************************************************************)
(* C35. Per-backend substatus: after status finalization the status has one *)
(* entry per declared backend, in declared order, and the entry of a        *)
(* backend says ok = false exactly when that backend, by name and type,     *)
(* failed in this Reconcile.                                                *)
(***************************************************************************)
C35_BackendSubstatus ==
    StatusFinalized =>
        /\ Len(gcr.backendsStatus) = Len(gcr.backends)
        /\ \A i \in DOMAIN gcr.backends :
              /\ gcr.backendsStatus[i].name = gcr.backends[i].name
              /\ gcr.backendsStatus[i].type = gcr.backends[i].type
              /\ ~gcr.backendsStatus[i].status <=> BackendFailed(gcr.backends[i])

\* Two backends of one type: a call failed for the first, none for the
\* second, and the status says ok = false for both.
C35_Witness ==
    /\ StatusFinalized
    /\ gcr.backends[1].type = gcr.backends[2].type
    /\ BackendFailed(gcr.backends[1])
    /\ ~BackendFailed(gcr.backends[2])
    /\ CallsOf("FetchTeamMembersByTeamID", BackendKey(gcr.backends[2])) # {}
    /\ ~gcr.backendsStatus[1].status
    /\ ~gcr.backendsStatus[2].status

(***************************************************************************)
(* C36. A Run of the offboarding job deletes the cache entries of the users *)
(* it found inactive only, and calls DeleteUser only with an id that the    *)
(* mapping of such a user holds for the backend: the entry of another user, *)
(* whose email contains the name of an inactive one, is neither deleted nor *)
(* used.                                                                    *)
(***************************************************************************)
C36_OwnEntryOnly ==
    SweepDone =>
        /\ \A k \in DOMAIN lastSweep.cache \ DOMAIN cache :
               \E u \in lastSweep.inactive : k = EmailOf[u]
        /\ \A i \in Made(calls, {"DeleteUser"}) :
               \E u \in lastSweep.inactive :
                   /\ calls[i].b \in DOMAIN EntryAtSweep(u)
                   /\ calls[i].args = <<EntryAtSweep(u)[calls[i].b]>>

\* x is gone from the directory and y is not: offboarding x took the entry
\* of y, whose email xy@mail contains x, deleted y's account with the id of
\* that entry and deleted the entry; x's own entry is still there.
C36_Witness ==
    /\ SweepDone
    /\ lastSweep.inactive = {"x"}
    /\ "x" \in lastSweep.offboarded
    /\ EmailOf["y"] \in DOMAIN lastSweep.cache
    /\ EmailOf["y"] \notin DOMAIN cache
    /\ EmailOf["x"] \in DOMAIN cache
    /\ CalledDeleteUser("ft_fivetran", EntryAtSweep("y")["ft_fivetran"])
    /\ AllCallsOk


(***************************************************************************)
(* C37. While the job has not run, two Reconciles of different Groups that  *)
(* share a user and a backend instance never both call CreateUser for that  *)
(* user on that instance, and the id the user's cache entry holds for the   *)
(* instance is the id of an account the backend has.                        *)
(***************************************************************************)
C37_CreateUserOnce ==
    (sweeper.pc = "idle" /\ sweeper.runs = 0) =>
        /\ \A w \in WorkerIds : \A v \in WorkerIds \ {w} :
               workers[w].created \cap workers[v].created = {}
        /\ \A w \in WorkerIds : \A c \in workers[w].created :
               (/\ workers[w].job.backend.type # "rover"
                /\ EmailOf[c[1]] \in DOMAIN cache
                /\ c[2] \in DOMAIN cache[EmailOf[c[1]]])
                   => cache[EmailOf[c[1]]][c[2]] \in busers[c[2]]

\* Group a and Group c both declare the fivetran instance and have member
\* y: both Reconciles missed y in the cache, both called CreateUser for y,
\* and both returned without error.
C37_Witness ==
    /\ sweeper.pc = "idle"
    /\ sweeper.runs = 0
    /\ Finished("w1")
    /\ Finished("w2")
    /\ workers["w1"].job.backend = workers["w2"].job.backend
    /\ <<"y", "ft_fivetran">> \in workers["w1"].created \cap workers["w2"].created
    /\ "xy@mail" \in DOMAIN cache
    /\ "ft_fivetran" \in DOMAIN cache["xy@mail"]

\* A step that is a Reconcile of the Group under deletion.
DeletingReconcileStep ==
    gcr.exists /\ gcr.deleting /\ lastRun'.op = "Reconcile"

\* The Reconcile of this step deleted the team of backend b.
TeamDeletedInStep(b) ==
    \E i \in Made(calls', {"DeleteTeamByID"}) :
        calls'[i].b = BackendKey(b) /\ calls'[i].ok

(***************************************************************************)
(* C39. A Reconcile of the Group under deletion takes from the cache only   *)
(* the team ids of the backend instances whose team it deleted: the id      *)
(* recorded for any other declared backend instance is recorded unchanged   *)
(* afterwards, whichever call of the Reconcile failed.                      *)
(***************************************************************************)
C39_OtherIdsKept ==
    [][DeletingReconcileStep =>
          \A b \in Range(gcr.backends) :
              (RecordedTeam(cache, cfg, gcr, b) # "" /\ ~TeamDeletedInStep(b))
                  => RecordedTeam(cache', cfg, gcr, b) = RecordedTeam(cache, cfg, gcr, b)]_vars

\* The deletion path deleted fivetran's team and the entry, the rewrite of
\* the entry failed and Reconcile returned the error: the id recorded for
\* rover when deletion was requested is gone, and rover's team was never
\* deleted.
C39_Witness ==
    /\ gcr.exists
    /\ gcr.deleting
    /\ lastRun.op = "Reconcile"
    /\ lastRun.path = "deletion"
    /\ lastRun.result = "error"
    /\ \E i \in Made(calls, {"CacheSet"}) : calls[i].b = "ft_fivetran" /\ ~calls[i].ok
    /\ \E p \in recordedAtDeletion \ deletedTeams :
           /\ p[1] = "rv_rover"
           /\ p \notin RecordedNow

\* No element of the list occurs at two places of it.
NoRepeat(list) ==
    \A i \in DOMAIN list : \A j \in DOMAIN list : list[i] = list[j] => i = j

(***************************************************************************)
(* C40. For every user list and every set of current members, the removal   *)
(* list of a processUsers that returns no error holds no backend id twice   *)
(* and shares no id with the add list.                                      *)
(***************************************************************************)
C40_RemovalList ==
    (lastRun.op = "processUsers" /\ ~lastRun.isError) =>
        /\ NoRepeat(lastRun.usersToRemove)
        /\ Range(lastRun.usersToRemove) \cap Range(lastRun.usersToAdd) = {}

\* A user of the list has no directory data and the raw id is a current
\* member: processUsers returned that id twice in the removal list.
C40_Witness ==
    /\ lastRun.op = "processUsers"
    /\ ~lastRun.isError
    /\ \E u \in (Range(lastRun.users) \ directory) \cap lastRun.members :
           Cardinality({i \in DOMAIN lastRun.usersToRemove :
                            lastRun.usersToRemove[i] = u}) = 2
    /\ Range(lastRun.usersToRemove) \cap Range(lastRun.usersToAdd) = {}

(***************************************************************************)
(* SpecWatch: the controller SetupWithManager builds                        *)
(* (group_controller.go:519-566) over a chain of Groups: a nests b, b nests *)
(* c. The Groups declare no backend, so a Reconcile is the expansion and    *)
(* the status. watch holds the work queue, metadata.generation and          *)
(* status.ReconciledUsers of every Group.                                   *)
(***************************************************************************)
\* Edits of members.users in one behaviour.
MaxEdits == 2

WatchStore ==
    ("a" :> [users |-> <<"x">>, groups |-> <<"b">>]) @@
    ("b" :> [users |-> <<>>, groups |-> <<"c">>]) @@
    ("c" :> [users |-> <<"y">>, groups |-> <<>>])

\* predicate.GenerationChangedPredicate: a create event passes (old
\* generation 0 here); an update event passes when metadata.generation
\* differs.
GenerationChanged(oldGeneration, newGeneration) == oldGeneration # newGeneration

\* Lines 532-557: the Groups whose spec.members.groups holds the name of
\* the Group of the event (the field index of lines 522-530).
mapFunc(st, name) == {m \in DOMAIN st : name \in Range(st[m].groups)}

\* Lines 559-565: the requests an event on Group name puts on the queue.
\* For enqueues the Group itself, Watches what mapFunc returns, and the
\* filter of WithEventFilter stands before both.
Enqueued(st, name, oldGeneration, newGeneration) ==
    IF GenerationChanged(oldGeneration, newGeneration)
    THEN {name} \cup mapFunc(st, name)
    ELSE {}

\* What status.ReconciledUsers of the Group is after a Reconcile of it.
ExpansionOf(st, name) ==
    deduplicateMembers(fetchUniqueGroupMembers(st, name, {}, 1).members)

\* The manager starts the controller: the informer delivers a create event
\* for every Group of the namespace.
WatchStart ==
    /\ ~watch.started
    /\ watch' = [watch EXCEPT
           !.started = TRUE,
           !.generation = [n \in DOMAIN store |-> 1],
           !.reconciled = [n \in DOMAIN store |-> <<>>],
           !.queue = UNION {Enqueued(store, n, 0, 1) : n \in DOMAIN store}]
    /\ UNCHANGED <<varsExpand, varsRec, varsConc, nameCall, varsTasks, gate, varsLdap,
                   varsImc, ownerCall, batch>>

\* kubectl edit of spec.members.users of one Group: the API server raises
\* metadata.generation and the informer delivers the update event.
EditUsers(name, users) ==
    /\ watch.started
    /\ watch.edits < MaxEdits
    /\ users # store[name].users
    /\ store' = [store EXCEPT ![name].users = users]
    /\ watch' = [watch EXCEPT
           !.edits = @ + 1,
           !.generation[name] = @ + 1,
           !.queue = @ \cup Enqueued(store', name, watch.generation[name],
                                     watch.generation[name] + 1)]
    /\ UNCHANGED <<expRoot, fetched, reconciledUsers, varsRec, varsConc, nameCall,
                   varsTasks, gate, varsLdap, varsImc, ownerCall, batch>>

\* A worker takes the request of Group name off the queue and Reconcile
\* runs (lines 72-274 with spec.backends empty): the writes of the
\* finalizer, the owner references and the status leave metadata.generation
\* as it is, and their update events go through the same filter. A
\* Reconcile that returns an error is requeued.
ReconcileQueued(name) ==
    /\ watch.started
    /\ name \in watch.queue
    /\ \E f \in {fetchUniqueGroupMembers(store, name, {}, 1)} :
         watch' = [watch EXCEPT
             !.reconciled[name] = IF f.err = "none" THEN deduplicateMembers(f.members)
                                  ELSE @,
             !.queue = ((@ \ {name}) \cup (IF f.err = "none" THEN {} ELSE {name}))
                       \cup Enqueued(store, name, watch.generation[name],
                                     watch.generation[name])]
    /\ UNCHANGED <<varsExpand, varsRec, varsConc, nameCall, varsTasks, gate, varsLdap,
                   varsImc, ownerCall, batch>>

EditUsersAny ==
    \E name \in DOMAIN store : \E users \in {<<>>} \cup UserLists : EditUsers(name, users)

ReconcileQueuedAny == \E name \in DOMAIN store : ReconcileQueued(name)

InitWatch ==
    /\ store = WatchStore
    /\ expRoot = ""
    /\ fetched = NoFetch
    /\ reconciledUsers = <<>>
    /\ InitRecWith("a", <<>>, CfgDefault)

NextWatch == WatchStart \/ EditUsersAny \/ ReconcileQueuedAny

\* The manager starts the controller, and the workers take every request
\* off the queue.
SpecWatch ==
    /\ InitWatch
    /\ [][NextWatch]_vars
    /\ WF_vars(WatchStart)
    /\ \A name \in GroupNames : WF_vars(ReconcileQueued(name))

\* status.ReconciledUsers of the Group is the expansion of the Group as the
\* store has it now.
Reflects(name) ==
    watch.started /\ watch.reconciled[name] = ExpansionOf(store, name)

(***************************************************************************)
(* C38. Change propagation: once the controller runs, every Group is        *)
(* reconciled again and again until its status.ReconciledUsers is the       *)
(* expansion of what the store holds, whichever Group below it had its      *)
(* members.users edited: the statuses of the Group edited, of its parents   *)
(* and of their ancestors all reflect the edit in the end.                  *)
(***************************************************************************)
C38_ChangePropagation == <>[](\A name \in GroupNames : Reflects(name))

\* members.users of c was edited after a had been reconciled; c and its
\* parent b were reconciled again and reflect the edit, the queue is empty
\* with edits still allowed, and the status of the grandparent a still has
\* the users of before.
C38_Witness ==
    /\ watch.started
    /\ watch.queue = {}
    /\ watch.edits < MaxEdits
    /\ watch.generation["c"] > 1
    /\ Reflects("c")
    /\ Reflects("b")
    /\ ~Reflects("a")
====
